---- MODULE Spec2Model ----
(***************************************************************************)
(* A model of sess (theMichaelB/sess): the session registry                *)
(* (internal/session, in src/internal/client/client.go from line 276),     *)
(* the session supervisor (internal/daemon, in src/internal/utils/errors.go*)
(* from line 120), the attach client (src/internal/client/client.go) and   *)
(* the launcher (src/cmd/main.go).                                         *)
(*                                                                         *)
(* The module holds several specifications, one per subsystem, over        *)
(* disjoint groups of variables:                                           *)
(*   Spec      the storage root, the launcher invocations and the          *)
(*             supervisors' life cycle                                     *)
(*   SpecSeq   the same with a single launcher (no concurrency)            *)
(*   SpecDaemon  one supervisor's client table                             *)
(*   SpecClient  one Attach call of the attach client                      *)
(*   SpecCurrent GetCurrentSession over the storage roots it can meet      *)
(*   SpecWire    the client-to-supervisor byte stream                      *)
(*   SpecOps     Lookup, Kill and ListLive called one after another        *)
(*   SpecList    the order of the list ListLive returns                    *)
(*   SpecLock    one caller of acquireLock and the time it waits           *)
(*   SpecDetach  an attached client, its supervisor and detach invocations *)
(*   SpecNorm    NormalizeSessionNumber on short strings                   *)
(*   SpecLaunch  launcher invocations run one after another, with their    *)
(*               environment, the storage directory and the process table  *)
(*   SpecRun     one supervisor from run() to the end of its process: its  *)
(*               goroutines, its shell, the signals it receives            *)
(*   SpecRunFair the same with the goroutines scheduled fairly             *)
(*   SpecKeys    readFromStdin of an attached client on short stdin reads  *)
(*   SpecStart   one supervisor from the call of Start to run() or to the  *)
(*               return of an error                                        *)
(*                                                                         *)
(* Signals are delivered to a process once its handlers are installed; a   *)
(* process killed by a signal it does not handle is outside the model.     *)
(***************************************************************************)
EXTENDS Integers, Sequences, FiniteSets, TLC

\* ------------------------------------------------------------- bounds
NProc == 2        \* launcher invocations that can run at the same time
MaxSup == 2       \* supervisors spawned in one behaviour
MaxId == 2        \* largest session number the model lets exist
MaxOps == 2       \* launcher invocations started in one behaviour of Spec
MaxSeqOps == 2    \* launcher invocations started in one behaviour of SpecSeq
MaxConn == 3      \* connections made to one supervisor in one behaviour
MaxPid == 2       \* PIDs the storage roots of SpecCurrent mention
MaxWrites == 3    \* socket writes the client makes in one behaviour of SpecWire
MaxCalls == 2     \* registry calls made in one behaviour of SpecOps
MaxListed == 3    \* live sessions in the storage roots of SpecList
MaxLockCalls == 2 \* acquireLock calls made in one behaviour of SpecLock
MaxDetach == 2    \* detach invocations made in one behaviour of SpecDetach
MaxKeys == 1      \* keystrokes the attached client forwards in SpecDetach
MaxStr == 3       \* length of the strings given to NormalizeSessionNumber
MaxLaunch == 2    \* launcher invocations made in one behaviour of SpecLaunch
MaxRunConn == 2   \* connections made to the supervisor in one behaviour of SpecRun
MaxChunk == 2     \* bytes one stdin read returns in SpecKeys
MaxOut == 3       \* PTY output chunks the shell produces in SpecGreet
MaxSpawn == 2     \* removeClient goroutines alive at once in SpecMutex

\* ------------------------------------------------- program constants
connectionTimeout == 30   \* seconds
readBufferSize == 4096    \* bytes: the buffer of clientReadLoop
lockTimeout == 5000       \* milliseconds: 5 * time.Second
lockPollSleep == 10       \* milliseconds: the sleep between two attempts

Procs == 1..NProc
Sups == 1..MaxSup
Ids == 1..MaxId

\* ------------------------------------------------------------- state
VARIABLES
    root,       \* the storage root ~/.sess: meta, sock, tmp, cur, lock
    ppc,        \* per launcher invocation: where it is in its handler
    pnum,       \* per launcher invocation: the session number it works on
    ppid,       \* per launcher invocation: the PID KillSession read
    sup,        \* per supervisor: [pc, id]
    shell,      \* per supervisor: its shell child
    ops,        \* launcher invocations the behaviour may still start
    everMeta    \* history: the numbers a metadata file has carried so far

\* One supervisor's client table (Daemon.clients and its goroutines).
VARIABLES
    dctx,       \* "live", "cancelled" (ctx.Done closed) or "cleaned"
    dconn,      \* per connection: "none", "queued", "open", "hungup" (the
                \* client closed its end, the supervisor's is still open)
                \* or "closed"
    clients,    \* the keys of Daemon.clients
    lastAge,    \* per connection: whole seconds since client.lastActivity
    readers,    \* the connections whose clientReadLoop goroutine runs
    removals,   \* the connections with a scheduled "go d.removeClient(conn)"
    greeting,   \* per connection: what handleNewConnection wrote to it
    busy,       \* history: the table was non-empty when it was accepted
    devent      \* history: the last step of the supervisor: [op, conn]

\* One Attach call (Client).
VARIABLES
    cpc,        \* where Attach is
    termMode,   \* the terminal mode of stdin
    origMode,   \* history: the mode before Attach was called
    isTerminal, \* whether stdin is a terminal
    nonblock,   \* O_NONBLOCK of stdin
    oldTermState, \* Client.oldTermState ("nil" or the saved mode)
    done,       \* Client.done is closed
    stdinLoop,  \* readFromStdin: "none", "running" or "returned"
    sessLoop,   \* readFromSession: the same
    sigLoop,    \* the signal goroutine: the same
    disableCtrlX, \* Client.disableCtrlX
    ending,     \* history: what ended the Attach call
    closes,     \* history: how many times closeDone was called and how many
                \* times close(c.done) has run: [calls, closed]
    cleanups    \* history: how many times Client.cleanup has run

\* One GetCurrentSession call.
VARIABLES
    croot,      \* the storage root
    calive,     \* the PIDs that answer signal 0
    cbefore,    \* history: the storage root before the call
    cres        \* the result: [called, number, err]

\* The client-to-supervisor byte stream of one connection.
VARIABLES
    wleft,      \* socket writes the client may still make
    wbuf,       \* bytes written by the client and not yet read
    wopen,      \* the supervisor still reads the connection
    pty,        \* bytes the supervisor has written to the PTY master
    forwarded,  \* history: stdin bytes the client has written to the socket
    winsize,    \* the window size last applied to the PTY: <<rows, cols>>
    wlast       \* history: the last chunk read and what was done with it

\* Registry calls made one after another on a storage root.
VARIABLES
    oroot,      \* the storage root
    oalive,     \* the PIDs that answer signal 0
    obefore,    \* history: the storage root before the last call
    ocall,      \* history: the last call, its result and the signals it sent
    okilled,    \* history: the session numbers a KillSession call has returned for
    oleft       \* calls the behaviour may still make

\* The list one ListSessions call returns.
VARIABLES
    lsnums,     \* the numbers of the live sessions in the storage root
    lsout,      \* the Number fields of the returned slice, in its order
    lsdone      \* the call has returned

\* One caller of acquireLock, with the time it has waited.
VARIABLES
    lkheld,     \* .lock: "free" (absent), "self" or "other" (who created it)
    lkpc,       \* where the caller is in NextSessionNumber or ListSessions
    lkwait,     \* milliseconds since the caller computed its deadline
    lkscanned,  \* history: this call has run listSessionsUnsafe
    lkres,      \* history: how the last call ended
    lkleft      \* calls the behaviour may still make

\* An attached client, the supervisor of its session, and detach invocations.
VARIABLES
    droot,      \* the storage root
    dalive,     \* the PIDs that exist
    dsess,      \* the session the client is attached to
    dclient,    \* the attached launcher: "attached", "detaching", "cleaned",
                \* "exited", or "gone" (killed earlier, nothing cleaned up)
    dterm,      \* the mode of the client's terminal
    dorig,      \* history: its mode before the client attached
    dsig,       \* the PIDs with a SIGUSR1 sent and not yet delivered
    dwire,      \* bytes the client wrote and the supervisor has not read
    dwritten,   \* history: every byte the client wrote to the socket
    dconnx,     \* the client's end of the connection: "open" or "closed"
    dtable,     \* the connection is in the supervisor's client table
    ddet,       \* what the last detach invocation reported
    dkeys,      \* keystrokes the client may still forward
    dleft,      \* detach invocations the behaviour may still make
    dhow,       \* history: what made the client detach: "usr1" or "ctrlx"
    dagain      \* a later attach to the same session: "none", "queued",
                \* "ready" or "error" (its greeting), "failed" (it has exited)

\* NormalizeSessionNumber applied to one string, and to its own result.
VARIABLES
    zin,        \* the argument
    zout,       \* NormalizeSessionNumber(zin)
    zagain,     \* NormalizeSessionNumber(zout)
    zdone       \* the calls have returned

\* Launcher invocations run one after another.
VARIABLES
    ndir,       \* the directory ~/.sess: [exists, perm]
    nroot,      \* the files in it
    nprocs,     \* the process table as the user's kill(2) sees it: per PID
                \* "none", "own" (signalling permitted) or "other" (not)
    nrun,       \* history: the last invocation, how it ended, the state before
    nleft       \* invocations the behaviour may still make

\* One supervisor from run() to the end of its process.
VARIABLES
    rctx,       \* d.ctx: "live" or "done"
    rwhy,       \* history: what called d.cancel first: "SIGTERM or SIGINT",
                \* "SIGCHLD" (the wait reaped the shell) or "SIGCHLD, shell
                \* not exited"; "none" before
    rshell,     \* the shell child: [state, status]
    rsigq,      \* sigChan (buffer 1): signals delivered and not yet received
    rsigpc,     \* the signal goroutine: "loop" or "returned"
    rmain,      \* the main goroutine: where it is in Start, run and cleanup
    rtask,      \* acceptConnections, handlePTY, monitorClients: where each is
    rlisten,    \* d.listener: "open" or "closed"
    rtable,     \* the keys of d.clients
    rconn,      \* per connection: "free", "queued", "open" (greeted READY)
                \* or "closed"
    rreaders,   \* the connections whose clientReadLoop goroutine runs
    rpend,      \* the connections with a scheduled "go d.removeClient(conn)"
    rpty,       \* the PTY: [master, slave], each "open" or "closed"
    rfiles      \* the session's files: [sock, meta, cur], each present or not

\* One client connecting to a running supervisor: the greeting.
VARIABLES
    gclient,    \* Client.Attach: "start", "dialled" (connected, before its
                \* first read), "proxy" (greeted, went on) or "failed"
    gsup,       \* the supervisor's side: "none" (not accepted yet),
                \* "registered" (in d.clients) or "removed"
    gsock,      \* the bytes the supervisor wrote that the client has not read
    gresp,      \* history: what the client's first read returned
    gout,       \* PTY output chunks the shell may still produce
    gshown      \* history: the bytes the client copied to its stdout

\* d.clientMutex, the sync.RWMutex of the client table, and its users.
VARIABLES
    mpc,        \* per goroutine: "none" (not running), "idle" (outside the
                \* lock), "wantw" (in Lock, waiting for the writers' mutex),
                \* "drain" (in Lock, waiting for the readers to leave),
                \* "write" (holds the write lock), "wantr" (in RLock, blocked
                \* by a writer) or "read" (holds a read lock)
    mwriter,    \* the goroutine that holds the writers' mutex, or NoTask
    mreaders    \* the goroutines that hold a read lock

regVars == <<root, ppc, pnum, ppid, sup, shell, ops, everMeta>>
daemonVars == <<dctx, dconn, clients, lastAge, readers, removals, greeting, busy,
               devent>>
clientVars == <<cpc, termMode, origMode, isTerminal, nonblock, oldTermState,
                done, stdinLoop, sessLoop, sigLoop, disableCtrlX, ending, closes,
                cleanups>>
curVars == <<croot, calive, cbefore, cres>>
wireVars == <<wleft, wbuf, wopen, pty, forwarded, winsize, wlast>>
opVars == <<oroot, oalive, obefore, ocall, okilled, oleft>>
listVars == <<lsnums, lsout, lsdone>>
lockVars == <<lkheld, lkpc, lkwait, lkscanned, lkres, lkleft>>
detVars == <<droot, dalive, dsess, dclient, dterm, dorig, dsig, dwire, dwritten,
             dconnx, dtable, ddet, dkeys, dleft, dhow, dagain>>
normVars == <<zin, zout, zagain, zdone>>
launchVars == <<ndir, nroot, nprocs, nrun, nleft>>
runVars == <<rctx, rwhy, rshell, rsigq, rsigpc, rmain, rtask, rlisten, rtable,
             rconn, rreaders, rpend, rpty, rfiles>>
greetVars == <<gclient, gsup, gsock, gresp, gout, gshown>>
mutexVars == <<mpc, mwriter, mreaders>>
lateVars == <<greetVars, mutexVars>>
moreVars == <<normVars, launchVars, runVars, lateVars>>
restVars == <<opVars, listVars, lockVars, detVars, moreVars>>
vars == <<regVars, daemonVars, clientVars, curVars, wireVars, restVars>>

\* ------------------------------------------------ processes and PIDs
\* The shell of supervisor s has PID s; launcher invocation p has PID
\* MaxSup + p.  PID 0 is "no PID".
ShellPid(s) == s
ClientPid(p) == MaxSup + p

\* A zombie (exited, not yet reaped by its parent) still answers signal 0.
AlivePids == {ShellPid(s) : s \in {t \in Sups : shell[t] \in {"alive", "zombie"}}}
             \cup {ClientPid(p) : p \in {q \in Procs : ppc[q] # "idle"}}

\* A probe that finds every PID alive.
isProcessAliveAlways(alive, pid) == TRUE

\* syscall.Kill(pid, 0) returns nil.
isProcessAlive(alive, pid) == pid \in alive

\* ------------------------------------------------- the storage root
\* meta[n]: 0 when session-n.meta is absent, else the PID it records.
\* sock[n]: 0 when session-n.sock is absent, else the supervisor bound to it.
\* tmp:     the session numbers whose session-n.meta.tmp exists.
\* cur:     .current_session; kind "none" (absent), "json", "legacy" (a plain
\*          number) or "bad" (unparsable); number 0 names no session.
\* lock:    0 when .lock is absent, else the invocation that created it.
NoCur == [kind |-> "none", number |-> 0, pid |-> 0]

EmptyRoot == [meta |-> [n \in Ids |-> 0], sock |-> [n \in Ids |-> 0],
              tmp |-> {}, cur |-> NoCur, lock |-> 0]

RemoveCurrent(R) == [R EXCEPT !.cur = NoCur]

\* A ClearCurrentSession that leaves the file.
ClearCurrentSessionKeeps(R) == R

ClearCurrentSession(R) == RemoveCurrent(R)

SetCurrentSession(R, number, pid) ==
    [R EXCEPT !.cur = [kind |-> "json", number |-> number, pid |-> pid]]

\* readCurrentSessionInfo: nil for an absent file, {trimmed, 0} for a payload
\* that does not start with '{', the parsed object otherwise; an error for
\* unparsable JSON.
readCurrentSessionInfo(R) ==
    CASE R.cur.kind = "none" -> [err |-> FALSE, nil |-> TRUE, number |-> 0, pid |-> 0]
      [] R.cur.kind = "legacy" ->
            [err |-> FALSE, nil |-> FALSE, number |-> R.cur.number, pid |-> 0]
      [] R.cur.kind = "json" ->
            [err |-> FALSE, nil |-> FALSE, number |-> R.cur.number, pid |-> R.cur.pid]
      [] OTHER -> [err |-> TRUE, nil |-> TRUE, number |-> 0, pid |-> 0]

RemoveSessionFiles(R, n) ==
    IF n \in Ids THEN [R EXCEPT !.sock[n] = 0, !.meta[n] = 0] ELSE R

RECURSIVE GetSession(_, _, _)
RECURSIVE cleanupSession(_, _, _)
RECURSIVE GetCurrentSession(_, _)

\* A GetSession that reports a dead session and leaves its files.
GetSessionLeavesDead(R, alive, n) ==
    IF n \notin Ids \/ R.meta[n] = 0
    THEN [root |-> R, res |-> "notfound", pid |-> 0]
    ELSE IF ~isProcessAlive(alive, R.meta[n])
         THEN [root |-> R, res |-> "dead", pid |-> 0]
         ELSE [root |-> R, res |-> "ok", pid |-> R.meta[n]]

\* GetSession: [root, res, pid]; res is "ok", "notfound" or "dead".
GetSession(R, alive, n) ==
    IF n \notin Ids \/ R.meta[n] = 0
    THEN [root |-> R, res |-> "notfound", pid |-> 0]
    ELSE IF ~isProcessAlive(alive, R.meta[n])
         THEN [root |-> cleanupSession(R, alive, n), res |-> "dead", pid |-> 0]
         ELSE [root |-> R, res |-> "ok", pid |-> R.meta[n]]

\* cleanupSession: remove the two files, then clear the current attachment
\* when GetCurrentSession (with its own self-healing) names this session.
cleanupSession(R, alive, n) ==
    LET R1 == RemoveSessionFiles(R, n)
        G == GetCurrentSession(R1, alive)
    IN IF G.number = n THEN ClearCurrentSession(G.root) ELSE G.root

\* GetCurrentSession: [root, number, err]; number 0 is "".
GetCurrentSession(R, alive) ==
    LET info == readCurrentSessionInfo(R) IN
    IF info.err THEN [root |-> R, number |-> 0, err |-> TRUE]
    ELSE IF info.nil THEN [root |-> R, number |-> 0, err |-> FALSE]
    ELSE IF info.pid # 0 /\ ~isProcessAlive(alive, info.pid)
         THEN [root |-> RemoveCurrent(R), number |-> 0, err |-> FALSE]
    ELSE LET G == GetSession(R, alive, info.number) IN
         IF G.res # "ok"
         THEN [root |-> RemoveCurrent(G.root), number |-> 0, err |-> FALSE]
         ELSE [root |-> R, number |-> info.number, err |-> FALSE]

\* listSessionsUnsafe: the metadata files in glob order; a file whose PID is
\* not alive is cleaned up and skipped.  [root, sessions].
RECURSIVE ScanFrom(_, _, _, _)
ScanFrom(R, alive, n, acc) ==
    IF n > MaxId THEN [root |-> R, sessions |-> acc]
    ELSE IF R.meta[n] = 0 THEN ScanFrom(R, alive, n + 1, acc)
    ELSE IF ~isProcessAlive(alive, R.meta[n])
         THEN ScanFrom(cleanupSession(R, alive, n), alive, n + 1, acc)
         ELSE ScanFrom(R, alive, n + 1, acc \cup {n})

\* A listing that probes no PID.
listSessionsNoProbe(R, alive) ==
    [root |-> R, sessions |-> {n \in Ids : R.meta[n] # 0}]

listSessionsUnsafe(R, alive) == ScanFrom(R, alive, 1, {})

SetMax(S) == IF S = {} THEN 0
             ELSE LET x == CHOOSE y \in S : \A z \in S : z <= y IN x

\* The number NextSessionNumber returns for the sessions it listed.
NextNumber(sessions) == SetMax(sessions) + 1

\* ------------------------------------------------------------ Init
Conns == 1..MaxConn
Pids == 1..MaxPid

NoGreeting == <<>>

\* Daemon.New: an empty client table and a live context.
DaemonInit ==
    /\ dctx = "live"
    /\ dconn = [c \in Conns |-> "none"]
    /\ clients = {}
    /\ lastAge = [c \in Conns |-> 0]
    /\ readers = {}
    /\ removals = {}
    /\ greeting = [c \in Conns |-> NoGreeting]
    /\ busy = [c \in Conns |-> FALSE]
    /\ devent = [op |-> "other", conn |-> 0]

\* client.New, on a stdin that is blocking.
ClientStart(mode, tty, noCtrlX) ==
    /\ cpc = "start"
    /\ termMode = mode
    /\ origMode = mode
    /\ isTerminal = tty
    /\ nonblock = FALSE
    /\ oldTermState = "nil"
    /\ done = FALSE
    /\ stdinLoop = "none"
    /\ sessLoop = "none"
    /\ sigLoop = "none"
    /\ disableCtrlX = noCtrlX
    /\ ending = "none"
    /\ closes = [calls |-> 0, closed |-> 0]
    /\ cleanups = 0

NoRes == [called |-> FALSE, number |-> 0, err |-> FALSE]

CurrentStart(R, alive) ==
    /\ croot = R
    /\ calive = alive
    /\ cbefore = R
    /\ cres = NoRes

NoChunk == [chunk |-> <<>>, written |-> <<>>, effect |-> "none"]

WireInit ==
    /\ wleft = MaxWrites
    /\ wbuf = <<>>
    /\ wopen = TRUE
    /\ pty = <<>>
    /\ forwarded = <<>>
    /\ winsize = <<0, 0>>
    /\ wlast = NoChunk

NoSup == [pc |-> "none", id |-> 0, rec |-> FALSE]

RegInit(budget) ==
    /\ root = EmptyRoot
    /\ ppc = [p \in Procs |-> "idle"]
    /\ pnum = [p \in Procs |-> 0]
    /\ ppid = [p \in Procs |-> 0]
    /\ sup = [s \in Sups |-> NoSup]
    /\ shell = [s \in Sups |-> "none"]
    /\ ops = budget
    /\ everMeta = {}

NoCall == [op |-> "none", id |-> 0, res |-> "none", pid |-> 0, term |-> 0,
           kill |-> 0, exited |-> FALSE, again |-> FALSE, sessions |-> {},
           alive |-> {}]

OpsStart(R, alive, budget) ==
    /\ oroot = R
    /\ oalive = alive
    /\ obefore = R
    /\ ocall = NoCall
    /\ okilled = {}
    /\ oleft = budget

\* The state of the parts a specification leaves alone.
OpsIdle == OpsStart(EmptyRoot, {}, 0)

ListStart(nums) ==
    /\ lsnums = nums
    /\ lsout = <<>>
    /\ lsdone = FALSE

ListIdle == ListStart({})

NoLockRes == [res |-> "none", scanned |-> FALSE, ended |-> "none"]

LockStart(budget) ==
    /\ lkheld = "free"
    /\ lkpc = "idle"
    /\ lkwait = 0
    /\ lkscanned = FALSE
    /\ lkres = NoLockRes
    /\ lkleft = budget

LockIdle == LockStart(0)

\* A client of PID pid attached to session n (client "attached"), or killed
\* while it was attached (client "gone"): the current-attachment file records
\* {n, pid} and the terminal is raw.
DetachStart(n, pid, client, mode, budget, keys) ==
    /\ droot = [EmptyRoot EXCEPT !.meta = [i \in Ids |-> i], !.sock = [i \in Ids |-> i],
                                 !.cur = [kind |-> "json", number |-> n, pid |-> pid]]
    /\ dalive = Ids \cup (IF client = "attached" THEN {pid} ELSE {})
    /\ dsess = n
    /\ dclient = client
    /\ dterm = "raw"
    /\ dorig = mode
    /\ dsig = {}
    /\ dwire = <<>>
    /\ dwritten = <<>>
    /\ dconnx = IF client = "attached" THEN "open" ELSE "closed"
    /\ dtable = (client = "attached")
    /\ ddet = "none"
    /\ dkeys = IF client = "attached" THEN keys ELSE 0
    /\ dleft = budget
    /\ dhow = "none"
    /\ dagain = "none"

DetachIdle == DetachStart(1, 0, "gone", "cooked", 0, 0)
\* The argument x of one NormalizeSessionNumber call.
NormStart(x) ==
    /\ zin = x
    /\ zout = <<>>
    /\ zagain = <<>>
    /\ zdone = FALSE

NormIdle == NormStart(<<>>)

NoDir == [exists |-> FALSE, perm |-> {}]

NoRun == [cmd |-> "none", env |-> <<>>, id |-> 0, exit |-> 0, msg |-> "none",
          named |-> <<>>, phase |-> "done", spawned |-> 0, set |-> FALSE,
          before |-> EmptyRoot, preset |-> EmptyRoot, dirBefore |-> NoDir,
          procsBefore |-> <<>>]

LaunchStart(dir, R, procs, budget) ==
    /\ ndir = dir
    /\ nroot = R
    /\ nprocs = procs
    /\ nrun = [NoRun EXCEPT !.dirBefore = dir, !.before = R, !.preset = R,
                            !.procsBefore = procs]
    /\ nleft = budget

LaunchIdle == LaunchStart(NoDir, EmptyRoot, <<>>, 0)
RunConns == 1..MaxRunConn

\* The supervisor in run(), its three tasks started: its shell runs,
\* setupSignalHandlers has started the signal goroutine, the listener is
\* bound, the metadata file is written; cur tells whether a .current_session
\* file lies in the directory.
RunStart(cur) ==
    /\ rctx = "live"
    /\ rwhy = "none"
    /\ rshell = [state |-> "running", status |-> 0]
    /\ rsigq = <<>>
    /\ rsigpc = "loop"
    /\ rmain = "waiting"
    /\ rtask = [accept |-> "loop", pty |-> "loop", monitor |-> "loop"]
    /\ rlisten = "open"
    /\ rtable = {}
    /\ rconn = [c \in RunConns |-> "free"]
    /\ rreaders = {}
    /\ rpend = {}
    /\ rpty = [master |-> "open", slave |-> "open"]
    /\ rfiles = [sock |-> TRUE, meta |-> TRUE, cur |-> cur]

\* No supervisor: its process has ended.
RunIdle ==
    /\ rctx = "done"
    /\ rwhy = "none"
    /\ rshell = [state |-> "reaped", status |-> 0]
    /\ rsigq = <<>>
    /\ rsigpc = "returned"
    /\ rmain = "exited"
    /\ rtask = [accept |-> "returned", pty |-> "returned", monitor |-> "returned"]
    /\ rlisten = "closed"
    /\ rtable = {}
    /\ rconn = [c \in RunConns |-> "free"]
    /\ rreaders = {}
    /\ rpend = {}
    /\ rpty = [master |-> "closed", slave |-> "closed"]
    /\ rfiles = [sock |-> FALSE, meta |-> FALSE, cur |-> FALSE]

GreetStart(out) ==
    /\ gclient = "start"
    /\ gsup = "none"
    /\ gsock = <<>>
    /\ gresp = <<>>
    /\ gout = out
    /\ gshown = <<>>

\* No client is connecting and the shell is silent.
GreetIdle ==
    /\ gclient = "failed"
    /\ gsup = "none"
    /\ gsock = <<>>
    /\ gresp = <<>>
    /\ gout = 0
    /\ gshown = <<>>

\* The goroutines of one supervisor that use the table: acceptConnections
\* (handleNewConnection), one clientReadLoop, handlePTY (broadcastToClients),
\* monitorClients (checkClientTimeouts), the main goroutine (cleanup), and
\* the goroutines started with "go d.removeClient(conn)".
NoTask == <<"none", 0>>
AcceptTask == <<"accept", 0>>
ReaderTask == <<"reader", 0>>
PtyTask == <<"pty", 0>>
MonitorTask == <<"monitor", 0>>
CleanupTask == <<"cleanup", 0>>
RemovalTasks == {<<"removal", i>> : i \in 1..MaxSpawn}
MutexTasks == {AcceptTask, ReaderTask, PtyTask, MonitorTask, CleanupTask} \cup RemovalTasks

\* No supervisor: no goroutine runs.
MutexIdle ==
    /\ mpc = [t \in MutexTasks |-> "none"]
    /\ mwriter = NoTask
    /\ mreaders = {}

LateIdle == GreetIdle /\ MutexIdle
MoreIdle == NormIdle /\ LaunchIdle /\ RunIdle /\ LateIdle
RestIdle == OpsIdle /\ ListIdle /\ LockIdle /\ DetachIdle /\ MoreIdle
RegIdle == RegInit(0)
ClientIdle == ClientStart("cooked", TRUE, FALSE)
CurrentIdle == CurrentStart(EmptyRoot, {})

\* A launcher invocation starts (a fresh process) and ends (the process exits).
Begin(p, pc, n) ==
    /\ ppc[p] = "idle"
    /\ ops > 0
    /\ ops' = ops - 1
    /\ ppc' = [ppc EXCEPT ![p] = pc]
    /\ pnum' = [pnum EXCEPT ![p] = n]

Goto(p, pc) ==
    /\ ppc' = [ppc EXCEPT ![p] = pc]
    /\ pnum' = IF pc = "idle" THEN [pnum EXCEPT ![p] = 0] ELSE pnum

\* The PIDs that answer signal 0 while invocation p runs.
AliveFor(p) == AlivePids \cup {ClientPid(p)}

\* ------------------------------------------- the registry lock file
\* An acquireLock that creates .lock over an existing one.
AcquireLockNotExclusive(p) ==
    /\ ppc[p] \in {"next_wait", "list_wait"}
    /\ root' = [root EXCEPT !.lock = p]
    /\ Goto(p, IF ppc[p] = "next_wait" THEN "next_locked" ELSE "list_locked")
    /\ UNCHANGED <<ppid, sup, shell, ops, everMeta>>
    /\ UNCHANGED <<daemonVars, clientVars, curVars, wireVars, restVars>>

\* acquireLock: exclusive creation of .lock.
AcquireLock(p) ==
    /\ ppc[p] \in {"next_wait", "list_wait"}
    /\ root.lock = 0
    /\ root' = [root EXCEPT !.lock = p]
    /\ Goto(p, IF ppc[p] = "next_wait" THEN "next_locked" ELSE "list_locked")
    /\ UNCHANGED <<ppid, sup, shell, ops, everMeta>>
    /\ UNCHANGED <<daemonVars, clientVars, curVars, wireVars, restVars>>

\* acquireLock: the deadline passes while another holder keeps .lock.
LockTimeout(p) ==
    /\ ppc[p] \in {"next_wait", "list_wait"}
    /\ root.lock # 0
    /\ Goto(p, "idle")
    /\ UNCHANGED <<root, ppid, sup, shell, ops, everMeta>>
    /\ UNCHANGED <<daemonVars, clientVars, curVars, wireVars, restVars>>

\* A Release that leaves .lock in place.
ReleaseLockKeeps(R) == R

\* LockFile.Release: close and os.Remove.
ReleaseLock(R) == [R EXCEPT !.lock = 0]

\* --------------------------------------------------- handleCreate
CreateBegin(p) ==
    /\ Begin(p, "next_wait", 0)
    /\ UNCHANGED <<root, ppid, sup, shell, everMeta>>
    /\ UNCHANGED <<daemonVars, clientVars, curVars, wireVars, restVars>>

\* NextSessionNumber under the lock: list (with its cleanup of dead
\* sessions), take the maximum, release.
NextSessionNumber(p) ==
    /\ ppc[p] = "next_locked"
    /\ LET L == listSessionsUnsafe(root, AlivePids)
           n == NextNumber(L.sessions)
       IN /\ root' = ReleaseLock(L.root)
          /\ pnum' = [pnum EXCEPT ![p] = n]
    /\ ppc' = [ppc EXCEPT ![p] = "spawn"]
    /\ UNCHANGED <<ppid, sup, shell, ops, everMeta>>
    /\ UNCHANGED <<daemonVars, clientVars, curVars, wireVars, restVars>>

FreeSups == {s \in Sups : sup[s].pc = "none"}

\* cmd.Start of "<self> --daemon <number> ...": a new supervisor process,
\* whose Start opens the PTY and starts the shell.
Spawn(p) ==
    /\ ppc[p] \in {"spawn", "ac_spawn"}
    /\ pnum[p] \in Ids
    /\ FreeSups # {}
    /\ LET s == CHOOSE x \in FreeSups : \A y \in FreeSups : x <= y
       IN /\ sup' = [sup EXCEPT ![s] = [pc |-> "shell", id |-> pnum[p], rec |-> FALSE]]
          /\ shell' = [shell EXCEPT ![s] = "alive"]
    /\ Goto(p, "c_wait")
    /\ UNCHANGED <<root, ppid, ops, everMeta>>
    /\ UNCHANGED <<daemonVars, clientVars, curVars, wireVars, restVars>>

\* The same, but openPTY or startShell fails: Start returns its error and the
\* supervisor process exits, having touched no file.
SpawnNoShell(p) ==
    /\ ppc[p] \in {"spawn", "ac_spawn"}
    /\ pnum[p] \in Ids
    /\ FreeSups # {}
    /\ LET s == CHOOSE x \in FreeSups : \A y \in FreeSups : x <= y
       IN sup' = [sup EXCEPT ![s] = [pc |-> "done", id |-> 0, rec |-> FALSE]]
    /\ Goto(p, "c_wait")
    /\ UNCHANGED <<root, ppid, shell, ops, everMeta>>
    /\ UNCHANGED <<daemonVars, clientVars, curVars, wireVars, restVars>>

\* cmd.Start fails: the invocation exits.
SpawnFail(p) ==
    /\ ppc[p] \in {"spawn", "ac_spawn"}
    /\ Goto(p, "idle")
    /\ UNCHANGED <<root, ppid, sup, shell, ops, everMeta>>
    /\ UNCHANGED <<daemonVars, clientVars, curVars, wireVars, restVars>>

\* The socket poll ended (socket seen, or two seconds passed), or handleAttach
\* found the session: SetCurrentSession(number) with the caller's PID.
SetCurrent(p) ==
    /\ ppc[p] = "c_wait"
    /\ root' = SetCurrentSession(root, pnum[p], ClientPid(p))
    /\ Goto(p, "c_cur")
    /\ UNCHANGED <<ppid, sup, shell, ops, everMeta>>
    /\ UNCHANGED <<daemonVars, clientVars, curVars, wireVars, restVars>>

Accepting(s) == s \in Sups /\ sup[s].pc \in {"listening", "running"}

\* c.Attach() connects and proxies: the client stays attached.
AttachOk(p) ==
    /\ ppc[p] = "c_cur"
    /\ Accepting(root.sock[pnum[p]])
    /\ Goto(p, "attached")
    /\ UNCHANGED <<root, ppid, sup, shell, ops, everMeta>>
    /\ UNCHANGED <<daemonVars, clientVars, curVars, wireVars, restVars>>

\* c.Attach() returns an error: ClearCurrentSession, exit 1.
AttachFail(p) ==
    /\ ppc[p] = "c_cur"
    /\ root' = ClearCurrentSession(root)
    /\ Goto(p, "idle")
    /\ UNCHANGED <<ppid, sup, shell, ops, everMeta>>
    /\ UNCHANGED <<daemonVars, clientVars, curVars, wireVars, restVars>>

\* c.Attach() returns nil after the client detached: ClearCurrentSession.
AttachEnd(p) ==
    /\ ppc[p] = "attached"
    /\ root' = ClearCurrentSession(root)
    /\ Goto(p, "idle")
    /\ UNCHANGED <<ppid, sup, shell, ops, everMeta>>
    /\ UNCHANGED <<daemonVars, clientVars, curVars, wireVars, restVars>>

\* ------------------------------- handleAttachCreate and handleAttach
\* handleAttachCreate: GetSession(number) decides between attaching and
\* spawning a supervisor for that number.
AttachCreateBegin(p, n) ==
    LET G == GetSession(root, AliveFor(p), n) IN
    /\ Begin(p, IF G.res = "ok" THEN "a_get" ELSE "ac_spawn", n)
    /\ root' = G.root
    /\ UNCHANGED <<ppid, sup, shell, everMeta>>
    /\ UNCHANGED <<daemonVars, clientVars, curVars, wireVars, restVars>>

AttachBegin(p, n) ==
    /\ Begin(p, "a_get", n)
    /\ UNCHANGED <<root, ppid, sup, shell, everMeta>>
    /\ UNCHANGED <<daemonVars, clientVars, curVars, wireVars, restVars>>

\* handleAttach: GetSession(number), exit 1 on an error.
AttachGet(p) ==
    /\ ppc[p] = "a_get"
    /\ LET G == GetSession(root, AlivePids, pnum[p])
       IN /\ root' = G.root
          /\ Goto(p, IF G.res = "ok" THEN "c_wait" ELSE "idle")
    /\ UNCHANGED <<ppid, sup, shell, ops, everMeta>>
    /\ UNCHANGED <<daemonVars, clientVars, curVars, wireVars, restVars>>

\* ------------------------------------------------------ handleKill
\* The shell of supervisor s ends.  A running supervisor's signal goroutine
\* takes the SIGCHLD, reaps the shell with Wait4(WNOHANG) and cancels the
\* context, and run() goes on to cleanup.  Before signal.Notify has run the
\* SIGCHLD is dropped, and during cleanup nobody waits: the shell stays a
\* zombie until the supervisor exits.
ShellEnds(s) ==
    /\ shell' = [shell EXCEPT ![s] = IF sup[s].pc = "running" THEN "gone" ELSE "zombie"]
    /\ sup' = IF sup[s].pc = "running" THEN [sup EXCEPT ![s].pc = "cleaning"] ELSE sup

\* KillSession, first half: GetSession, then SIGTERM to the recorded PID
\* (the shell may or may not exit on it: see ShellExit).
KillBegin(p, n) ==
    LET G == GetSession(root, AliveFor(p), n) IN
    /\ Begin(p, IF G.res = "ok" THEN "k_wait" ELSE "idle", IF G.res = "ok" THEN n ELSE 0)
    /\ root' = G.root
    /\ ppid' = [ppid EXCEPT ![p] = G.pid]
    /\ UNCHANGED <<sup, shell, everMeta>>
    /\ UNCHANGED <<daemonVars, clientVars, curVars, wireVars, restVars>>

\* KillSession, second half, after the one-second sleep: SIGKILL when the
\* PID still answers, then cleanupSession(number).
KillFinish(p) ==
    /\ ppc[p] = "k_wait"
    /\ IF ppid[p] \in Sups /\ shell[ppid[p]] = "alive"
       THEN ShellEnds(ppid[p])
       ELSE UNCHANGED <<sup, shell>>
    /\ root' = cleanupSession(root, AlivePids, pnum[p])
    /\ Goto(p, "idle")
    /\ ppid' = [ppid EXCEPT ![p] = 0]
    /\ UNCHANGED <<ops, everMeta>>
    /\ UNCHANGED <<daemonVars, clientVars, curVars, wireVars, restVars>>

\* ------------------------------------------------------ handleList
ListBegin(p) ==
    /\ Begin(p, "list_wait", 0)
    /\ UNCHANGED <<root, ppid, sup, shell, everMeta>>
    /\ UNCHANGED <<daemonVars, clientVars, curVars, wireVars, restVars>>

\* ListSessions under the lock; handleList returns at once when the list is
\* empty and asks GetCurrentSession otherwise.
ListSessions(p) ==
    /\ ppc[p] = "list_locked"
    /\ LET L == listSessionsUnsafe(root, AlivePids)
       IN /\ root' = ReleaseLock(L.root)
          /\ Goto(p, IF L.sessions = {} THEN "idle" ELSE "list_cur")
    /\ UNCHANGED <<ppid, sup, shell, ops, everMeta>>
    /\ UNCHANGED <<daemonVars, clientVars, curVars, wireVars, restVars>>

ListCurrent(p) ==
    /\ ppc[p] = "list_cur"
    /\ root' = GetCurrentSession(root, AlivePids).root
    /\ Goto(p, "idle")
    /\ UNCHANGED <<ppid, sup, shell, ops, everMeta>>
    /\ UNCHANGED <<daemonVars, clientVars, curVars, wireVars, restVars>>

\* ------------------------------------------------- the supervisor
\* writeMetadata: the temporary file is written and renamed over the
\* metadata path; the file records the shell's PID.
writeNothing(R, id, pid) == R

writeMetadata(R, id, pid) == [R EXCEPT !.meta[id] = pid]

SupWriteMeta(s) ==
    /\ sup[s].pc = "shell"
    /\ root' = writeMetadata(root, sup[s].id, ShellPid(s))
    /\ sup' = [sup EXCEPT ![s].pc = "meta", ![s].rec = TRUE]
    /\ everMeta' = everMeta \cup {sup[s].id}
    /\ UNCHANGED <<ppc, pnum, ppid, shell, ops>>
    /\ UNCHANGED <<daemonVars, clientVars, curVars, wireVars, restVars>>

\* writeMetadata fails (in WriteFile, which may leave the temporary file, or
\* in Rename, which leaves it): Start runs cleanup.
SupWriteMetaFail(s) ==
    /\ sup[s].pc = "shell"
    /\ \E left \in BOOLEAN :
          root' = IF left THEN [root EXCEPT !.tmp = @ \cup {sup[s].id}] ELSE root
    /\ sup' = [sup EXCEPT ![s].pc = "cleaning"]
    /\ UNCHANGED <<ppc, pnum, ppid, shell, ops, everMeta>>
    /\ UNCHANGED <<daemonVars, clientVars, curVars, wireVars, restVars>>

\* startListener: unlink whatever is at the socket path, then bind.
startListener(R, id, s) == [R EXCEPT !.sock[id] = s]

SupListen(s) ==
    /\ sup[s].pc = "meta"
    /\ root' = startListener(root, sup[s].id, s)
    /\ sup' = [sup EXCEPT ![s].pc = "listening"]
    /\ UNCHANGED <<ppc, pnum, ppid, shell, ops, everMeta>>
    /\ UNCHANGED <<daemonVars, clientVars, curVars, wireVars, restVars>>

\* startListener fails after its unlink: Start runs cleanup.
SupListenFail(s) ==
    /\ sup[s].pc = "meta"
    /\ root' = [root EXCEPT !.sock[sup[s].id] = 0]
    /\ sup' = [sup EXCEPT ![s].pc = "cleaning"]
    /\ UNCHANGED <<ppc, pnum, ppid, shell, ops, everMeta>>
    /\ UNCHANGED <<daemonVars, clientVars, curVars, wireVars, restVars>>

\* detachFromTerminal succeeds; setupSignalHandlers; run.
SupRun(s) ==
    /\ sup[s].pc = "listening"
    /\ sup' = [sup EXCEPT ![s].pc = "running"]
    /\ UNCHANGED <<root, ppc, pnum, ppid, shell, ops, everMeta>>
    /\ UNCHANGED <<daemonVars, clientVars, curVars, wireVars, restVars>>

\* detachFromTerminal fails: Start runs cleanup.
SupDetachFail(s) ==
    /\ sup[s].pc = "listening"
    /\ sup' = [sup EXCEPT ![s].pc = "cleaning"]
    /\ UNCHANGED <<root, ppc, pnum, ppid, shell, ops, everMeta>>
    /\ UNCHANGED <<daemonVars, clientVars, curVars, wireVars, restVars>>

\* The shell exits (on its own, or on the SIGTERM of KillSession or of
\* Daemon.cleanup).
ShellExit(s) ==
    /\ shell[s] = "alive"
    /\ ShellEnds(s)
    /\ UNCHANGED <<root, ppc, pnum, ppid, ops, everMeta>>
    /\ UNCHANGED <<daemonVars, clientVars, curVars, wireVars, restVars>>

\* The signal goroutine on SIGTERM or SIGINT: cancel.
SupTerminate(s) ==
    /\ sup[s].pc = "running"
    /\ sup' = [sup EXCEPT ![s].pc = "cleaning"]
    /\ UNCHANGED <<root, ppc, pnum, ppid, shell, ops, everMeta>>
    /\ UNCHANGED <<daemonVars, clientVars, curVars, wireVars, restVars>>

\* A cleanup that forgets the metadata file.
DaemonCleanupKeepsMeta(R, id) ==
    [R EXCEPT !.sock[id] = 0, !.cur = NoCur]

\* The end of Daemon.cleanup: the three os.Remove calls.
DaemonCleanupFiles(R, id) ==
    [R EXCEPT !.sock[id] = 0, !.meta[id] = 0, !.cur = NoCur]

\* Daemon.cleanup after its one-second sleep: Process.Kill, close the PTY,
\* remove the files; the supervisor process then exits.
SupCleanup(s) ==
    /\ sup[s].pc = "cleaning"
    /\ root' = DaemonCleanupFiles(root, sup[s].id)
    /\ sup' = [sup EXCEPT ![s].pc = "done", ![s].id = 0]
    /\ shell' = [shell EXCEPT ![s] = "none"]
    /\ UNCHANGED <<ppc, pnum, ppid, ops, everMeta>>
    /\ UNCHANGED <<daemonVars, clientVars, curVars, wireVars, restVars>>

\* ------------------------------------------------------------ Next
ProcStep(p) ==
    \/ CreateBegin(p)
    \/ AcquireLock(p)
    \/ NextSessionNumber(p)
    \/ Spawn(p)
    \/ SpawnNoShell(p)
    \/ SpawnFail(p)
    \/ SetCurrent(p)
    \/ AttachOk(p)
    \/ AttachFail(p)
    \/ AttachEnd(p)
    \/ \E n \in Ids : AttachCreateBegin(p, n)
    \/ \E n \in Ids : AttachBegin(p, n)
    \/ AttachGet(p)
    \/ \E n \in Ids : KillBegin(p, n)
    \/ KillFinish(p)
    \/ ListBegin(p)
    \/ ListSessions(p)
    \/ ListCurrent(p)

SupStep(s) ==
    \/ SupWriteMeta(s)
    \/ SupWriteMetaFail(s)
    \/ SupListen(s)
    \/ SupListenFail(s)
    \/ SupRun(s)
    \/ SupDetachFail(s)
    \/ ShellExit(s)
    \/ SupTerminate(s)
    \/ SupCleanup(s)

\* The launchers run concurrently; a behaviour starts at most MaxOps of them.
Init == RegInit(MaxOps) /\ DaemonInit /\ ClientIdle /\ CurrentIdle /\ WireInit /\ RestIdle

Next ==
    \/ \E p \in Procs : ProcStep(p) \/ LockTimeout(p)
    \/ \E s \in Sups : SupStep(s)

Spec == Init /\ [][Next]_vars

\* One launcher at a time: no two invocations overlap.
InitSeq == RegInit(MaxSeqOps) /\ DaemonInit /\ ClientIdle /\ CurrentIdle /\ WireInit
           /\ RestIdle

NextSeq ==
    \/ ProcStep(1)
    \/ \E s \in Sups : SupStep(s)

SpecSeq == InitSeq /\ [][NextSeq]_vars

\* The same launchers, started while session 001 runs detached: its
\* supervisor (the first) serves it and its shell lives.
InitKilled ==
    /\ root = [EmptyRoot EXCEPT !.meta[1] = ShellPid(1), !.sock[1] = 1]
    /\ ppc = [p \in Procs |-> "idle"]
    /\ pnum = [p \in Procs |-> 0]
    /\ ppid = [p \in Procs |-> 0]
    /\ sup = [s \in Sups |-> IF s = 1 THEN [pc |-> "running", id |-> 1, rec |-> TRUE]
                                      ELSE NoSup]
    /\ shell = [s \in Sups |-> IF s = 1 THEN "alive" ELSE "none"]
    /\ ops = MaxOps
    /\ everMeta = {1}
    /\ DaemonInit /\ ClientIdle /\ CurrentIdle /\ WireInit /\ RestIdle

SpecKilled == InitKilled /\ [][Next]_vars

\* =================================================== the client table
ReadyLine == <<"READY\n">>
ErrorLine == <<"ERROR: Session already has an active connection\n">>

\* A handleNewConnection that registers every connection.
TableNeverBusy(table) == FALSE

\* A handleNewConnection that turns every connection away.
TableAlwaysBusy(table) == TRUE

\* handleNewConnection's test: len(d.clients) > 0.
TableBusy(table) == Cardinality(table) > 0

\* A removeClient that closes the connection and leaves it in the table.
removeClientKeeps(c) ==
    /\ clients' = clients
    /\ dconn' = IF c \in clients THEN [dconn EXCEPT ![c] = "closed"] ELSE dconn
    /\ lastAge' = lastAge

\* removeClient under the mutex: close and delete, only when still present.
removeClient(c) ==
    /\ clients' = clients \ {c}
    /\ dconn' = IF c \in clients THEN [dconn EXCEPT ![c] = "closed"] ELSE dconn
    /\ lastAge' = [lastAge EXCEPT ![c] = 0]

\* A client dials the socket: the connection waits in the listener's queue.
Dial(c) ==
    /\ dctx # "cleaned"
    /\ dconn[c] = "none"
    /\ \A b \in Conns : b < c => dconn[b] # "none"
    /\ dconn' = [dconn EXCEPT ![c] = "queued"]
    /\ UNCHANGED <<dctx, clients, lastAge, readers, removals, greeting, busy>>
    /\ devent' = [op |-> "other", conn |-> 0]
    /\ UNCHANGED <<regVars, clientVars, curVars, wireVars, restVars>>

\* The client of c goes away: it sent DISCONNECT and closed, or closed its
\* socket without a word (a signal, a failed attach, the process killed).
PeerCloses(c) ==
    /\ dconn[c] = "open"
    /\ dconn' = [dconn EXCEPT ![c] = "hungup"]
    /\ UNCHANGED <<dctx, clients, lastAge, readers, removals, greeting, busy>>
    /\ devent' = [op |-> "other", conn |-> 0]
    /\ UNCHANGED <<regVars, clientVars, curVars, wireVars, restVars>>

\* acceptConnections took c from the queue: handleNewConnection(c).
handleNewConnection(c) ==
    /\ dconn[c] = "queued"
    /\ busy' = [busy EXCEPT ![c] = clients # {}]
    /\ IF TableBusy(clients)
       THEN /\ greeting' = [greeting EXCEPT ![c] = @ \o ErrorLine]
            /\ dconn' = [dconn EXCEPT ![c] = "closed"]
            /\ UNCHANGED <<clients, lastAge, readers>>
       ELSE /\ clients' = clients \cup {c}
            /\ lastAge' = [lastAge EXCEPT ![c] = 0]
            /\ greeting' = [greeting EXCEPT ![c] = @ \o ReadyLine]
            /\ dconn' = [dconn EXCEPT ![c] = "open"]
            /\ readers' = readers \cup {c}
    /\ UNCHANGED <<dctx, removals>>
    /\ devent' = [op |-> "accept", conn |-> c]
    /\ UNCHANGED <<regVars, clientVars, curVars, wireVars, restVars>>

\* clientReadLoop read n > 0 bytes that are not DISCONNECT: lastActivity is
\* refreshed when the connection is still in the table.
ReadActivity(c) ==
    /\ c \in readers
    /\ dctx = "live"
    /\ dconn[c] = "open"
    /\ lastAge[c] > 0
    /\ lastAge' = [lastAge EXCEPT ![c] = 0]
    /\ UNCHANGED <<dctx, dconn, clients, readers, removals, greeting, busy>>
    /\ devent' = [op |-> "read", conn |-> c]
    /\ UNCHANGED <<regVars, clientVars, curVars, wireVars, restVars>>

\* clientReadLoop read "DISCONNECT\n": removeClient, and the loop returns.
ReadDisconnect(c) ==
    /\ c \in readers
    /\ dctx = "live"
    /\ dconn[c] = "open"
    /\ removeClient(c)
    /\ readers' = readers \ {c}
    /\ UNCHANGED <<dctx, removals, greeting, busy>>
    /\ devent' = [op |-> "other", conn |-> 0]
    /\ UNCHANGED <<regVars, clientVars, curVars, wireVars, restVars>>

\* clientReadLoop's Read failed (the peer closed, or the connection was
\* closed under it): removeClient, and the loop returns.
ReadError(c) ==
    /\ c \in readers
    /\ dctx = "live"
    /\ removeClient(c)
    /\ readers' = readers \ {c}
    /\ UNCHANGED <<dctx, removals, greeting, busy>>
    /\ devent' = [op |-> "other", conn |-> 0]
    /\ UNCHANGED <<regVars, clientVars, curVars, wireVars, restVars>>

\* clientReadLoop sees ctx.Done and returns.
ReaderStops(c) ==
    /\ c \in readers
    /\ dctx # "live"
    /\ readers' = readers \ {c}
    /\ UNCHANGED <<dctx, dconn, clients, lastAge, removals, greeting, busy>>
    /\ devent' = [op |-> "other", conn |-> 0]
    /\ UNCHANGED <<regVars, clientVars, curVars, wireVars, restVars>>

\* One second passes.
Tick ==
    /\ dctx = "live"
    /\ \E c \in clients : lastAge[c] <= connectionTimeout
    /\ lastAge' = [c \in Conns |->
                      IF c \in clients /\ lastAge[c] <= connectionTimeout
                      THEN lastAge[c] + 1 ELSE lastAge[c]]
    /\ UNCHANGED <<dctx, dconn, clients, readers, removals, greeting, busy>>
    /\ devent' = [op |-> "other", conn |-> 0]
    /\ UNCHANGED <<regVars, clientVars, curVars, wireVars, restVars>>

\* A sweep that removes a client idle for connectionTimeout or more.
IdleAtLeast(age) == age >= connectionTimeout

\* checkClientTimeouts' test: now.Sub(client.lastActivity) > connectionTimeout.
IdleTooLong(age) == age > connectionTimeout

\* broadcastToClients: the write of PTY output to c succeeded.
BroadcastOk(c) ==
    /\ dctx = "live"
    /\ c \in clients
    /\ devent' = [op |-> "output", conn |-> c]
    /\ UNCHANGED <<dctx, dconn, clients, lastAge, readers, removals, greeting, busy>>
    /\ UNCHANGED <<regVars, clientVars, curVars, wireVars, restVars>>

\* monitorClients' ticker: every entry idle for more than connectionTimeout
\* gets a "go d.removeClient(conn)".
checkClientTimeouts ==
    /\ dctx = "live"
    /\ removals' = removals \cup {c \in clients : IdleTooLong(lastAge[c])}
    /\ UNCHANGED <<dctx, dconn, clients, lastAge, readers, greeting, busy>>
    /\ devent' = [op |-> "sweep", conn |-> 0]
    /\ UNCHANGED <<regVars, clientVars, curVars, wireVars, restVars>>

\* broadcastToClients: the write to c failed: "go d.removeClient(conn)".
BroadcastFails(c) ==
    /\ dctx = "live"
    /\ c \in clients
    /\ removals' = removals \cup {c}
    /\ UNCHANGED <<dctx, dconn, clients, lastAge, readers, greeting, busy>>
    /\ devent' = [op |-> "other", conn |-> 0]
    /\ UNCHANGED <<regVars, clientVars, curVars, wireVars, restVars>>

\* A scheduled removeClient goroutine runs.
RunRemoval(c) ==
    /\ c \in removals
    /\ removals' = removals \ {c}
    /\ removeClient(c)
    /\ UNCHANGED <<dctx, readers, greeting, busy>>
    /\ devent' = [op |-> "removal", conn |-> c]
    /\ UNCHANGED <<regVars, clientVars, curVars, wireVars, restVars>>

\* d.cancel(): the shell exited or a SIGTERM/SIGINT arrived.
Cancel ==
    /\ dctx = "live"
    /\ dctx' = "cancelled"
    /\ UNCHANGED <<dconn, clients, lastAge, readers, removals, greeting, busy>>
    /\ devent' = [op |-> "other", conn |-> 0]
    /\ UNCHANGED <<regVars, clientVars, curVars, wireVars, restVars>>

\* Daemon.cleanup: close every connection of the table, replace the table
\* by an empty one, close the listener (queued connections are reset).
DaemonCleanup ==
    /\ dctx = "cancelled"
    /\ dctx' = "cleaned"
    /\ dconn' = [c \in Conns |-> IF c \in clients \/ dconn[c] = "queued"
                                 THEN "closed" ELSE dconn[c]]
    /\ clients' = {}
    /\ lastAge' = [c \in Conns |-> 0]
    /\ UNCHANGED <<readers, removals, greeting, busy>>
    /\ devent' = [op |-> "other", conn |-> 0]
    /\ UNCHANGED <<regVars, clientVars, curVars, wireVars, restVars>>

InitDaemon == RegIdle /\ DaemonInit /\ ClientIdle /\ CurrentIdle /\ WireInit /\ RestIdle

NextDaemon ==
    \/ \E c \in Conns :
          \/ Dial(c)
          \/ PeerCloses(c)
          \/ handleNewConnection(c)
          \/ ReadActivity(c)
          \/ ReadDisconnect(c)
          \/ ReadError(c)
          \/ ReaderStops(c)
          \/ BroadcastOk(c)
          \/ BroadcastFails(c)
          \/ RunRemoval(c)
    \/ Tick
    \/ checkClientTimeouts
    \/ Cancel
    \/ DaemonCleanup

SpecDaemon == InitDaemon /\ [][NextDaemon]_vars

\* clientReadLoop's Read on a connection whose peer is gone returns EOF
\* within its deadline, and a goroutine started with "go d.removeClient" is
\* scheduled.
DaemonFairness ==
    \A c \in Conns :
        /\ WF_vars(dconn[c] = "hungup" /\ ReadError(c))
        /\ WF_vars(RunRemoval(c))

SpecDaemonFair == SpecDaemon /\ DaemonFairness

\* ================================================== the attach client
Modes == {"cooked", "cbreak"}

\* term.MakeRaw puts the terminal in raw mode and returns the mode it had.
MakeRaw(mode) == "raw"

\* A restoreTerminal that leaves the terminal as it is.
restoreTerminalKeeps(mode, old) == mode

\* restoreTerminal: term.Restore to the saved state when there is one.
restoreTerminal(mode, old) == IF old # "nil" THEN old ELSE mode

\* A closeDone without the sync.Once: every call closes the channel.
closeDoneEachTime(cause) ==
    /\ done' = TRUE
    /\ ending' = IF done THEN ending ELSE cause
    /\ closes' = [calls |-> closes.calls + 1, closed |-> closes.closed + 1]

\* closeDone: doneOnce.Do runs close(c.done) on the first call only.
closeDone(cause) ==
    /\ done' = TRUE
    /\ ending' = IF done THEN ending ELSE cause
    /\ closes' = [calls |-> closes.calls + 1,
                  closed |-> IF done THEN closes.closed ELSE closes.closed + 1]

\* Attach returns an error before run: the connection is closed.
ReturnError(cause) ==
    /\ cpc' = "returned"
    /\ ending' = cause

\* net.DialTimeout fails.
DialFails ==
    /\ cpc = "start"
    /\ ReturnError("dial")
    /\ UNCHANGED <<termMode, origMode, isTerminal, nonblock, oldTermState, done,
                   stdinLoop, sessLoop, sigLoop, disableCtrlX>>
    /\ UNCHANGED <<closes, cleanups>>
    /\ UNCHANGED <<regVars, daemonVars, curVars, wireVars, restVars>>

DialOk ==
    /\ cpc = "start"
    /\ cpc' = "greeting"
    /\ UNCHANGED <<termMode, origMode, isTerminal, nonblock, oldTermState, done,
                   stdinLoop, sessLoop, sigLoop, disableCtrlX, ending>>
    /\ UNCHANGED <<closes, cleanups>>
    /\ UNCHANGED <<regVars, daemonVars, curVars, wireVars, restVars>>

\* The first read fails, or returns something other than "READY\n".
GreetingRejected ==
    /\ cpc = "greeting"
    /\ ReturnError("greeting")
    /\ UNCHANGED <<termMode, origMode, isTerminal, nonblock, oldTermState, done,
                   stdinLoop, sessLoop, sigLoop, disableCtrlX>>
    /\ UNCHANGED <<closes, cleanups>>
    /\ UNCHANGED <<regVars, daemonVars, curVars, wireVars, restVars>>

GreetingReady ==
    /\ cpc = "greeting"
    /\ cpc' = "setup"
    /\ UNCHANGED <<termMode, origMode, isTerminal, nonblock, oldTermState, done,
                   stdinLoop, sessLoop, sigLoop, disableCtrlX, ending>>
    /\ UNCHANGED <<closes, cleanups>>
    /\ UNCHANGED <<regVars, daemonVars, curVars, wireVars, restVars>>

\* setupTerminal: stdin is not a terminal, or term.MakeRaw fails.
SetupFails ==
    /\ cpc = "setup"
    /\ ReturnError("setup")
    /\ UNCHANGED <<termMode, origMode, isTerminal, nonblock, oldTermState, done,
                   stdinLoop, sessLoop, sigLoop, disableCtrlX>>
    /\ UNCHANGED <<closes, cleanups>>
    /\ UNCHANGED <<regVars, daemonVars, curVars, wireVars, restVars>>

\* setupTerminal: term.MakeRaw succeeds and the old state is kept.
SetupMakeRaw ==
    /\ cpc = "setup"
    /\ isTerminal
    /\ oldTermState' = termMode
    /\ termMode' = MakeRaw(termMode)
    /\ cpc' = "getsize"
    /\ UNCHANGED <<origMode, isTerminal, nonblock, done,
                   stdinLoop, sessLoop, sigLoop, disableCtrlX, ending>>
    /\ UNCHANGED <<closes, cleanups>>
    /\ UNCHANGED <<regVars, daemonVars, curVars, wireVars, restVars>>

\* setupTerminal: term.GetSize fails: term.Restore(oldState), error.
SetupGetSizeFails ==
    /\ cpc = "getsize"
    /\ termMode' = oldTermState
    /\ ReturnError("setup")
    /\ UNCHANGED <<origMode, isTerminal, nonblock, oldTermState, done,
                   stdinLoop, sessLoop, sigLoop, disableCtrlX>>
    /\ UNCHANGED <<closes, cleanups>>
    /\ UNCHANGED <<regVars, daemonVars, curVars, wireVars, restVars>>

\* setupTerminal ends with SetNonblock(true); then handleResize,
\* setupSignalHandlers, and run starts its two readers.
SetupDoneRun ==
    /\ cpc = "getsize"
    /\ nonblock' = TRUE
    /\ cpc' = "running"
    /\ stdinLoop' = "running"
    /\ sessLoop' = "running"
    /\ sigLoop' = "running"
    /\ UNCHANGED <<termMode, origMode, isTerminal, oldTermState, done,
                   disableCtrlX, ending>>
    /\ UNCHANGED <<closes, cleanups>>
    /\ UNCHANGED <<regVars, daemonVars, curVars, wireVars, restVars>>

\* readFromStdin read the lone byte 0x18 with Ctrl-X enabled: detach.
StdinCtrlX ==
    /\ stdinLoop = "running"
    /\ ~disableCtrlX
    /\ closeDone("ctrlx")
    /\ stdinLoop' = "returned"
    /\ UNCHANGED <<cpc, termMode, origMode, isTerminal, nonblock, oldTermState,
                   sessLoop, sigLoop, disableCtrlX>>
    /\ UNCHANGED cleanups
    /\ UNCHANGED <<regVars, daemonVars, curVars, wireVars, restVars>>

\* readFromStdin: the read fails with something other than EAGAIN, EINTR or
\* EOF.
StdinReadFails ==
    /\ stdinLoop = "running"
    /\ closeDone("stdin")
    /\ stdinLoop' = "returned"
    /\ UNCHANGED <<cpc, termMode, origMode, isTerminal, nonblock, oldTermState,
                   sessLoop, sigLoop, disableCtrlX>>
    /\ UNCHANGED cleanups
    /\ UNCHANGED <<regVars, daemonVars, curVars, wireVars, restVars>>

\* readFromStdin: forwarding the chunk to the socket fails.
StdinWriteFails ==
    /\ stdinLoop = "running"
    /\ closeDone("socket")
    /\ stdinLoop' = "returned"
    /\ UNCHANGED <<cpc, termMode, origMode, isTerminal, nonblock, oldTermState,
                   sessLoop, sigLoop, disableCtrlX>>
    /\ UNCHANGED cleanups
    /\ UNCHANGED <<regVars, daemonVars, curVars, wireVars, restVars>>

StdinSeesDone ==
    /\ stdinLoop = "running"
    /\ done
    /\ stdinLoop' = "returned"
    /\ UNCHANGED <<cpc, termMode, origMode, isTerminal, nonblock, oldTermState,
                   done, sessLoop, sigLoop, disableCtrlX, ending>>
    /\ UNCHANGED <<closes, cleanups>>
    /\ UNCHANGED <<regVars, daemonVars, curVars, wireVars, restVars>>

\* readFromSession: the socket read fails (error or EOF).
SessionReadFails ==
    /\ sessLoop = "running"
    /\ closeDone("socket")
    /\ sessLoop' = "returned"
    /\ UNCHANGED <<cpc, termMode, origMode, isTerminal, nonblock, oldTermState,
                   stdinLoop, sigLoop, disableCtrlX>>
    /\ UNCHANGED cleanups
    /\ UNCHANGED <<regVars, daemonVars, curVars, wireVars, restVars>>

SessionSeesDone ==
    /\ sessLoop = "running"
    /\ done
    /\ sessLoop' = "returned"
    /\ UNCHANGED <<cpc, termMode, origMode, isTerminal, nonblock, oldTermState,
                   done, stdinLoop, sigLoop, disableCtrlX, ending>>
    /\ UNCHANGED <<closes, cleanups>>
    /\ UNCHANGED <<regVars, daemonVars, curVars, wireVars, restVars>>

\* The signal goroutine takes SIGINT or SIGTERM: closeDone.
SignalIntTerm ==
    /\ sigLoop = "running"
    /\ closeDone("signal")
    /\ sigLoop' = "returned"
    /\ UNCHANGED <<cpc, termMode, origMode, isTerminal, nonblock, oldTermState,
                   stdinLoop, sessLoop, disableCtrlX>>
    /\ UNCHANGED cleanups
    /\ UNCHANGED <<regVars, daemonVars, curVars, wireVars, restVars>>

\* The signal goroutine takes SIGUSR1: detach.
SignalUsr1 ==
    /\ sigLoop = "running"
    /\ closeDone("usr1")
    /\ sigLoop' = "returned"
    /\ UNCHANGED <<cpc, termMode, origMode, isTerminal, nonblock, oldTermState,
                   stdinLoop, sessLoop, disableCtrlX>>
    /\ UNCHANGED cleanups
    /\ UNCHANGED <<regVars, daemonVars, curVars, wireVars, restVars>>

SignalSeesDone ==
    /\ sigLoop = "running"
    /\ done
    /\ sigLoop' = "returned"
    /\ UNCHANGED <<cpc, termMode, origMode, isTerminal, nonblock, oldTermState,
                   done, stdinLoop, sessLoop, disableCtrlX, ending>>
    /\ UNCHANGED <<closes, cleanups>>
    /\ UNCHANGED <<regVars, daemonVars, curVars, wireVars, restVars>>

\* run: wg.Wait has returned; cleanup restores the terminal, makes stdin
\* blocking and closes the connection; Attach returns nil.
ClientCleanup ==
    /\ cpc = "running"
    /\ stdinLoop = "returned"
    /\ sessLoop = "returned"
    /\ termMode' = restoreTerminal(termMode, oldTermState)
    /\ nonblock' = FALSE
    /\ cpc' = "returned"
    /\ UNCHANGED <<origMode, isTerminal, oldTermState, done,
                   stdinLoop, sessLoop, sigLoop, disableCtrlX, ending>>
    /\ cleanups' = cleanups + 1
    /\ UNCHANGED closes
    /\ UNCHANGED <<regVars, daemonVars, curVars, wireVars, restVars>>

InitClient ==
    /\ \E mode \in Modes, tty \in BOOLEAN, noCtrlX \in BOOLEAN :
          ClientStart(mode, tty, noCtrlX)
    /\ RegIdle /\ DaemonInit /\ CurrentIdle /\ WireInit /\ RestIdle

NextClient ==
    \/ DialFails
    \/ DialOk
    \/ GreetingRejected
    \/ GreetingReady
    \/ SetupFails
    \/ SetupMakeRaw
    \/ SetupGetSizeFails
    \/ SetupDoneRun
    \/ StdinCtrlX
    \/ StdinReadFails
    \/ StdinWriteFails
    \/ StdinSeesDone
    \/ SessionReadFails
    \/ SessionSeesDone
    \/ SignalIntTerm
    \/ SignalUsr1
    \/ SignalSeesDone
    \/ ClientCleanup

SpecClient == InitClient /\ [][NextClient]_vars

\* Both readers poll c.done between reads that cannot block (stdin is
\* non-blocking, the socket read has a 20 ms deadline), and run goes on to
\* cleanup once wg.Wait returns.
ClientFairness ==
    /\ WF_vars(StdinSeesDone)
    /\ WF_vars(SessionSeesDone)
    /\ WF_vars(ClientCleanup)

SpecClientFair == SpecClient /\ ClientFairness

\* ============================================ GetCurrentSession alone
\* The .current_session files a root can hold: absent, unparsable, a legacy
\* plain number, or the JSON object; number 0 names no session and PID 0 is
\* "no PID recorded".
CurFiles ==
    {NoCur, [kind |-> "bad", number |-> 0, pid |-> 0]}
    \cup {[kind |-> "legacy", number |-> n, pid |-> 0] : n \in 0..MaxId}
    \cup {[kind |-> "json", number |-> n, pid |-> q] : n \in 0..MaxId, q \in 0..MaxPid}

CurrentRoots ==
    {[EmptyRoot EXCEPT !.meta = m, !.cur = c] : m \in [Ids -> 0..MaxPid], c \in CurFiles}

\* One call of GetCurrentSession.
CallGetCurrentSession ==
    /\ ~cres.called
    /\ LET G == GetCurrentSession(croot, calive)
       IN /\ croot' = G.root
          /\ cres' = [called |-> TRUE, number |-> G.number, err |-> G.err]
    /\ UNCHANGED <<calive, cbefore>>
    /\ UNCHANGED <<regVars, daemonVars, clientVars, wireVars, restVars>>

InitCurrent ==
    /\ \E R \in CurrentRoots, alive \in SUBSET Pids : CurrentStart(R, alive)
    /\ RegIdle /\ DaemonInit /\ ClientIdle /\ WireInit /\ RestIdle

NextCurrent == CallGetCurrentSession

SpecCurrent == InitCurrent /\ [][NextCurrent]_vars

\* ============================================== the client's byte stream
DisconnectFrame == <<"D", "I", "S", "C", "O", "N", "N", "E", "C", "T", "\n">>
PingFrame == <<"P", "I", "N", "G", "\n">>
ResizePrefix == <<"R", "E", "S", "I", "Z", "E", " ">>

DigitChars == <<"0", "1", "2", "3", "4", "5", "6", "7", "8", "9">>

\* fmt's %d of a non-negative int.
RECURSIVE Itoa(_)
Itoa(n) == IF n < 10 THEN <<DigitChars[n + 1]>>
           ELSE Itoa(n \div 10) \o <<DigitChars[(n % 10) + 1]>>

\* handleResize's frame: fmt.Sprintf("RESIZE %d %d\n", height, width).
ResizeFrame(rows, cols) ==
    ResizePrefix \o Itoa(rows) \o <<" ">> \o Itoa(cols) \o <<"\n">>

HasPrefix(s, prefix) ==
    Len(s) >= Len(prefix) /\ SubSeq(s, 1, Len(prefix)) = prefix

IsSpace(ch) == ch \in {" ", "\n", "\t", "\r"}

\* strings.Fields: the maximal runs of non-space characters.
RECURSIVE FieldsFrom(_, _, _, _)
FieldsFrom(s, i, word, acc) ==
    IF i > Len(s) THEN (IF word = <<>> THEN acc ELSE Append(acc, word))
    ELSE IF IsSpace(s[i])
         THEN FieldsFrom(s, i + 1, <<>>, IF word = <<>> THEN acc ELSE Append(acc, word))
         ELSE FieldsFrom(s, i + 1, Append(word, s[i]), acc)

Fields(s) == FieldsFrom(s, 1, <<>>, <<>>)

DigitValue(ch) == CHOOSE d \in 0..9 : DigitChars[d + 1] = ch

AllDigits(f) == f # <<>> /\ \A i \in 1..Len(f) : \E d \in 0..9 : DigitChars[d + 1] = f[i]

RECURSIVE DecimalValue(_)
DecimalValue(f) ==
    IF f = <<>> THEN 0
    ELSE DecimalValue(SubSeq(f, 1, Len(f) - 1)) * 10 + DigitValue(f[Len(f)])

\* strconv.Atoi with its error dropped ("r, _ = strconv.Atoi"): 0 for a field
\* that is no decimal number.
Atoi(f) == IF AllDigits(f) THEN DecimalValue(f) ELSE 0

\* The conversion uint16(r).
Uint16(n) == n % 65536

\* clientReadLoop's switch on one read chunk: what it does (effect), the
\* bytes it writes to the PTY master, and the window size it applies.
HandleChunk(s) ==
    IF s = DisconnectFrame
    THEN [effect |-> "disconnect", written |-> <<>>, size |-> <<>>]
    ELSE IF s = PingFrame
    THEN [effect |-> "pong", written |-> <<>>, size |-> <<>>]
    ELSE IF HasPrefix(s, ResizePrefix)
    THEN LET fields == Fields(s) IN
         IF Len(fields) >= 3
         THEN [effect |-> "resize", written |-> <<>>,
               size |-> <<Uint16(Atoi(fields[2])), Uint16(Atoi(fields[3]))>>]
         ELSE [effect |-> "ignored", written |-> <<>>, size |-> <<>>]
    ELSE [effect |-> "data", written |-> s, size |-> <<>>]

\* What the client reads from stdin in one read, and the sizes of its window.
StdinChunks == {<<"a">>, <<"b">>}
WinSizes == {<<24, 80>>, <<5, 132>>}

\* readFromStdin forwards a stdin chunk with one socket write.
WriteStdin(d) ==
    /\ wleft > 0
    /\ wleft' = wleft - 1
    /\ wbuf' = wbuf \o d
    /\ forwarded' = forwarded \o d
    /\ UNCHANGED <<wopen, pty, winsize, wlast>>
    /\ UNCHANGED <<regVars, daemonVars, clientVars, curVars, restVars>>

\* handleResize (on SIGWINCH) writes a RESIZE frame with one socket write.
WriteResize(sz) ==
    /\ wleft > 0
    /\ wleft' = wleft - 1
    /\ wbuf' = wbuf \o ResizeFrame(sz[1], sz[2])
    /\ UNCHANGED <<wopen, pty, forwarded, winsize, wlast>>
    /\ UNCHANGED <<regVars, daemonVars, clientVars, curVars, restVars>>

\* detach writes DISCONNECT with one socket write; the client then stops.
WriteDisconnect ==
    /\ wleft > 0
    /\ wleft' = 0
    /\ wbuf' = wbuf \o DisconnectFrame
    /\ UNCHANGED <<wopen, pty, forwarded, winsize, wlast>>
    /\ UNCHANGED <<regVars, daemonVars, clientVars, curVars, restVars>>

Min(a, b) == IF a < b THEN a ELSE b

\* One conn.Read of clientReadLoop: the bytes that have arrived, up to the
\* size of its buffer, whatever writes they came from.
SupervisorRead ==
    /\ wopen
    /\ wbuf # <<>>
    /\ LET n == Min(Len(wbuf), readBufferSize)
           chunk == SubSeq(wbuf, 1, n)
           H == HandleChunk(chunk)
       IN /\ wbuf' = SubSeq(wbuf, n + 1, Len(wbuf))
          /\ pty' = pty \o H.written
          /\ winsize' = IF H.effect = "resize" THEN H.size ELSE winsize
          /\ wopen' = (H.effect # "disconnect")
          /\ wlast' = [chunk |-> chunk, written |-> H.written, effect |-> H.effect]
    /\ UNCHANGED <<wleft, forwarded>>
    /\ UNCHANGED <<regVars, daemonVars, clientVars, curVars, restVars>>

InitWire == RegIdle /\ DaemonInit /\ ClientIdle /\ CurrentIdle /\ WireInit /\ RestIdle

NextWire ==
    \/ \E d \in StdinChunks : WriteStdin(d)
    \/ \E sz \in WinSizes : WriteResize(sz)
    \/ WriteDisconnect
    \/ SupervisorRead

SpecWire == InitWire /\ [][NextWire]_vars

\* ========================================== registry calls in sequence
\* Lookup (GetSession), Kill (KillSession) and ListLive (ListSessions) called
\* one after another by launchers that do not overlap, on the storage roots
\* the program can leave behind.  Session n's metadata records SessionPid(n);
\* the current-attachment file records AttachedPid or, in the legacy format,
\* no PID.
SessionPid(n) == n
AttachedPid == MaxId + 1
OpPids == 1..(MaxId + 1)

OpCurFiles ==
    {NoCur, [kind |-> "bad", number |-> 0, pid |-> 0]}
    \cup {[kind |-> "legacy", number |-> n, pid |-> 0] : n \in Ids}
    \cup {[kind |-> "json", number |-> n, pid |-> AttachedPid] : n \in Ids}

OpMetas == {f \in [Ids -> 0..MaxId] : \A n \in Ids : f[n] \in {0, SessionPid(n)}}

OpRoots ==
    {[EmptyRoot EXCEPT !.meta = m, !.sock = k, !.cur = c] :
        m \in OpMetas, k \in [Ids -> {0, 1}], c \in OpCurFiles}

\* A KillSession that signals the process and removes no file.
KillSessionKeepsFiles(R, alive, n, gone, exits) ==
    LET G == GetSession(R, alive, n) IN
    IF G.res # "ok"
    THEN [root |-> G.root, alive |-> alive, res |-> G.res, term |-> 0,
          kill |-> 0, exited |-> FALSE]
    ELSE [root |-> R, alive |-> alive \ {G.pid}, res |-> "ok", term |-> G.pid,
          kill |-> IF exits THEN 0 ELSE G.pid, exited |-> exits]

\* A KillSession that sends SIGKILL without probing the PID again.
KillSessionAlwaysForce(R, alive, n, gone, exits) ==
    LET G == GetSession(R, alive, n) IN
    IF G.res # "ok"
    THEN [root |-> G.root, alive |-> alive, res |-> G.res, term |-> 0,
          kill |-> 0, exited |-> FALSE]
    ELSE [root |-> cleanupSession(R, alive \ {G.pid}, n), alive |-> alive \ {G.pid},
          res |-> "ok", term |-> G.pid, kill |-> G.pid, exited |-> exits]

\* KillSession: [root, alive, res, term, kill, exited].  res is "notfound" or
\* "dead" (GetSession's errors), "alreadydead" (SIGTERM returned ESRCH) or
\* "ok"; term and kill are the PIDs SIGTERM and SIGKILL were sent to (0: not
\* sent).  gone: the process disappeared between GetSession's probe and the
\* SIGTERM.  exits: the process exited within the one-second sleep.
KillSession(R, alive, n, gone, exits) ==
    LET G == GetSession(R, alive, n) IN
    IF G.res # "ok"
    THEN [root |-> G.root, alive |-> alive, res |-> G.res, term |-> 0,
          kill |-> 0, exited |-> FALSE]
    ELSE IF gone
    THEN [root |-> cleanupSession(R, alive \ {G.pid}, n), alive |-> alive \ {G.pid},
          res |-> "alreadydead", term |-> G.pid, kill |-> 0, exited |-> FALSE]
    ELSE LET a1 == IF exits THEN alive \ {G.pid} ELSE alive
             k == IF isProcessAlive(a1, G.pid) THEN G.pid ELSE 0
             a2 == a1 \ {G.pid}
         IN [root |-> cleanupSession(R, a2, n), alive |-> a2, res |-> "ok",
             term |-> G.pid, kill |-> k, exited |-> exits]

\* handleKill: one KillSession call.
CallKill(n, gone, exits) ==
    /\ oleft > 0
    /\ LET G == GetSession(oroot, oalive, n)
           K == KillSession(oroot, oalive, n, gone, exits)
       IN /\ (G.res # "ok" => ~gone /\ ~exits)
          /\ (gone => ~exits)
          /\ oroot' = K.root
          /\ oalive' = K.alive
          /\ ocall' = [NoCall EXCEPT !.op = "kill", !.id = n, !.res = K.res,
                                     !.term = K.term, !.kill = K.kill,
                                     !.exited = K.exited, !.again = n \in okilled,
                                     !.alive = oalive]
    /\ obefore' = oroot
    /\ okilled' = okilled \cup {n}
    /\ oleft' = oleft - 1
    /\ UNCHANGED <<regVars, daemonVars, clientVars, curVars, wireVars, listVars, lockVars,
                   detVars, moreVars>>

\* One GetSession call.
CallLookup(n) ==
    /\ oleft > 0
    /\ LET G == GetSession(oroot, oalive, n)
       IN /\ oroot' = G.root
          /\ ocall' = [NoCall EXCEPT !.op = "lookup", !.id = n, !.res = G.res,
                                     !.pid = G.pid, !.alive = oalive]
    /\ obefore' = oroot
    /\ oleft' = oleft - 1
    /\ UNCHANGED <<oalive, okilled>>
    /\ UNCHANGED <<regVars, daemonVars, clientVars, curVars, wireVars, listVars, lockVars,
                   detVars, moreVars>>

\* One ListSessions call: the lock is free, taken, and released on return.
CallList ==
    /\ oleft > 0
    /\ oroot.lock = 0
    /\ LET L == listSessionsUnsafe([oroot EXCEPT !.lock = 1], oalive)
       IN /\ oroot' = ReleaseLock(L.root)
          /\ ocall' = [NoCall EXCEPT !.op = "list", !.res = "ok",
                                     !.sessions = L.sessions, !.alive = oalive]
    /\ obefore' = oroot
    /\ oleft' = oleft - 1
    /\ UNCHANGED <<oalive, okilled>>
    /\ UNCHANGED <<regVars, daemonVars, clientVars, curVars, wireVars, listVars, lockVars,
                   detVars, moreVars>>

InitOps ==
    /\ \E R \in OpRoots, alive \in SUBSET OpPids : OpsStart(R, alive, MaxCalls)
    /\ RegIdle /\ DaemonInit /\ ClientIdle /\ CurrentIdle /\ WireInit /\ ListIdle
    /\ LockIdle /\ DetachIdle /\ MoreIdle

NextOps ==
    \/ \E n \in Ids, gone \in BOOLEAN, exits \in BOOLEAN : CallKill(n, gone, exits)
    \/ \E n \in Ids : CallLookup(n)
    \/ CallList

SpecOps == InitOps /\ [][NextOps]_vars

\* ================================================ the order of the list
\* Session numbers are rendered with fmt.Sprintf("%03d", n), by
\* NextSessionNumber and by NormalizeSessionNumber.
Sprintf03d(n) ==
    LET d == Itoa(n) IN
    IF Len(d) >= 3 THEN d ELSE [i \in 1..(3 - Len(d)) |-> "0"] \o d

\* Go's < on strings: byte by byte, a proper prefix first.  The strings here
\* hold decimal digits only.
RECURSIVE StringLess(_, _)
StringLess(a, b) ==
    IF a = <<>> THEN b # <<>>
    ELSE IF b = <<>> THEN FALSE
    ELSE IF a[1] # b[1] THEN DigitValue(a[1]) < DigitValue(b[1])
    ELSE StringLess(Tail(a), Tail(b))

\* sort.Slice with the comparison sessions[i].Number < sessions[j].Number,
\* on sessions with distinct numbers.
RECURSIVE sortSlice(_)
sortSlice(S) ==
    IF S = {} THEN <<>>
    ELSE LET least == CHOOSE x \in S : \A y \in S \ {x} : StringLess(x, y)
         IN <<least>> \o sortSlice(S \ {least})

\* The session numbers the roots of SpecList draw from.
ListNumbers == {1, 2, 10, 99, 100, 999, 1000, 1001}

\* ListSessions on a root whose sessions are all alive.
CallListSessions ==
    /\ ~lsdone
    /\ lsout' = sortSlice({Sprintf03d(n) : n \in lsnums})
    /\ lsdone' = TRUE
    /\ UNCHANGED lsnums
    /\ UNCHANGED <<regVars, daemonVars, clientVars, curVars, wireVars, opVars, lockVars,
                   detVars, moreVars>>

InitList ==
    /\ \E nums \in {S \in SUBSET ListNumbers : Cardinality(S) <= MaxListed} :
          ListStart(nums)
    /\ RegIdle /\ DaemonInit /\ ClientIdle /\ CurrentIdle /\ WireInit /\ OpsIdle
    /\ LockIdle /\ DetachIdle /\ MoreIdle

NextList == CallListSessions

SpecList == InitList /\ [][NextList]_vars

\* ================================================== waiting for the lock
\* One launcher calling NextSessionNumber or ListSessions while other
\* processes create and remove .lock.  Time passes in the caller's sleeps
\* only: an attempt and the deadline test take no time.
LockOthers ==
    /\ UNCHANGED <<regVars, daemonVars, clientVars, curVars, wireVars, opVars, listVars,
                   detVars, moreVars>>

\* Where a wait of so many milliseconds ends, relative to the deadline.
AgainstDeadline(waited) ==
    IF waited < lockTimeout THEN "before"
    ELSE IF waited = lockTimeout THEN "at" ELSE "after"

\* A deadline test that never ends the loop.
BeforeDeadlineAlways(waited) == TRUE

\* time.Now().Before(deadline), with deadline := time.Now().Add(lockTimeout).
BeforeDeadline(waited) == waited < lockTimeout

\* The launcher calls NextSessionNumber or ListSessions.
LockCall ==
    /\ lkpc = "idle"
    /\ lkleft > 0
    /\ lkleft' = lkleft - 1
    /\ lkpc' = "first"
    /\ lkwait' = 0
    /\ lkscanned' = FALSE
    /\ UNCHANGED <<lkheld, lkres>>
    /\ LockOthers

\* acquireLock's first os.OpenFile(O_CREATE|O_EXCL): the lock is taken, or
\* the file exists and the deadline is computed.
LockFirstAttempt ==
    /\ lkpc = "first"
    /\ IF lkheld = "free"
       THEN lkheld' = "self" /\ lkpc' = "scan"
       ELSE lkheld' = lkheld /\ lkpc' = "loop"
    /\ UNCHANGED <<lkwait, lkscanned, lkres, lkleft>>
    /\ LockOthers

\* One turn of the loop before the deadline: another os.OpenFile.
LockRetry ==
    /\ lkpc = "loop"
    /\ BeforeDeadline(lkwait)
    /\ IF lkheld = "free"
       THEN lkheld' = "self" /\ lkpc' = "scan"
       ELSE lkheld' = lkheld /\ lkpc' = "sleep"
    /\ UNCHANGED <<lkwait, lkscanned, lkres, lkleft>>
    /\ LockOthers

\* time.Sleep(10 * time.Millisecond).
LockSleep ==
    /\ lkpc = "sleep"
    /\ lkwait' = lkwait + lockPollSleep
    /\ lkpc' = "loop"
    /\ UNCHANGED <<lkheld, lkscanned, lkres, lkleft>>
    /\ LockOthers

\* The loop ends at the deadline with err still set: "failed to acquire
\* lock", which NextSessionNumber and ListSessions return at once.
LockDeadline ==
    /\ lkpc = "loop"
    /\ ~BeforeDeadline(lkwait)
    /\ lkres' = [res |-> "timeout", scanned |-> lkscanned,
                  ended |-> AgainstDeadline(lkwait)]
    /\ lkpc' = "idle"
    /\ lkwait' = 0
    /\ UNCHANGED <<lkheld, lkscanned, lkleft>>
    /\ LockOthers

\* With the lock: listSessionsUnsafe, then the deferred Release.
LockScanRelease ==
    /\ lkpc = "scan"
    /\ lkscanned' = TRUE
    /\ lkheld' = "free"
    /\ lkres' = [res |-> "ok", scanned |-> TRUE, ended |-> AgainstDeadline(lkwait)]
    /\ lkpc' = "idle"
    /\ lkwait' = 0
    /\ UNCHANGED lkleft
    /\ LockOthers

\* Another process creates .lock, and removes it.
OtherAcquires ==
    /\ lkheld = "free"
    /\ lkheld' = "other"
    /\ UNCHANGED <<lkpc, lkwait, lkscanned, lkres, lkleft>>
    /\ LockOthers

OtherReleases ==
    /\ lkheld = "other"
    /\ lkheld' = "free"
    /\ UNCHANGED <<lkpc, lkwait, lkscanned, lkres, lkleft>>
    /\ LockOthers

InitLock ==
    /\ LockStart(MaxLockCalls)
    /\ RegIdle /\ DaemonInit /\ ClientIdle /\ CurrentIdle /\ WireInit
    /\ OpsIdle /\ ListIdle /\ DetachIdle /\ MoreIdle

NextLock ==
    \/ LockCall
    \/ LockFirstAttempt
    \/ LockRetry
    \/ LockSleep
    \/ LockDeadline
    \/ LockScanRelease
    \/ OtherAcquires
    \/ OtherReleases

SpecLock == InitLock /\ [][NextLock]_vars

\* ============================================================== detach
\* A launcher of PID AttachedPid that ran handleAttach (or handleCreate): it
\* wrote the current-attachment file and is inside c.Attach(), with the
\* terminal raw and the signal goroutine running.  Other launchers run
\* handleDetach.  The session's shell has PID SessionPid(dsess).
DetachOthers ==
    /\ UNCHANGED <<regVars, daemonVars, clientVars, curVars, wireVars, opVars, listVars,
                   lockVars, moreVars>>

\* A handleDetach that signals the PID the session's metadata records.
DetachTargetSession(R, info) == IF info.number \in Ids THEN R.meta[info.number] ELSE 0

\* handleDetach signals info.PID, the client PID of the current-session file.
DetachTarget(R, info) == info.pid

\* Client.detach: c.rawMode.Write([]byte("DISCONNECT\n")), then closeDone.
detachWrites(wire) == wire \o DisconnectFrame

\* handleDetach, whole: GetCurrentSessionInfo, then SIGUSR1 to the client PID;
\* ESRCH clears the stale file.
handleDetach ==
    /\ dleft > 0
    /\ dleft' = dleft - 1
    /\ LET info == readCurrentSessionInfo(droot)
           target == DetachTarget(droot, info)
       IN IF info.err \/ info.nil \/ info.number = 0 \/ info.pid = 0
          THEN /\ ddet' = "notattached"
               /\ UNCHANGED <<droot, dsig>>
          ELSE IF ~isProcessAlive(dalive, target)
          THEN /\ droot' = ClearCurrentSession(droot)
               /\ ddet' = "stale"
               /\ UNCHANGED dsig
          ELSE /\ dsig' = dsig \cup {target}
               /\ ddet' = "signalled"
               /\ UNCHANGED droot
    /\ UNCHANGED <<dalive, dsess, dclient, dterm, dorig, dwire, dwritten, dconnx,
                   dtable, dkeys>>
    /\ UNCHANGED <<dhow, dagain>>
    /\ DetachOthers

\* A pending SIGUSR1 is delivered.  The attached client's signal goroutine
\* calls detach(); once that goroutine has returned the signal stays in the
\* channel.  A process without a handler (a shell) is terminated by it.
Usr1Delivered(pid) ==
    /\ pid \in dsig
    /\ dsig' = dsig \ {pid}
    /\ IF pid = AttachedPid
       THEN /\ IF dclient = "attached"
               THEN /\ dwire' = detachWrites(dwire)
                    /\ dwritten' = detachWrites(dwritten)
                    /\ dclient' = "detaching"
                    /\ dhow' = "usr1"
               ELSE UNCHANGED <<dwire, dwritten, dclient, dhow>>
            /\ UNCHANGED dalive
       ELSE /\ dalive' = dalive \ {pid}
            /\ UNCHANGED <<dwire, dwritten, dclient, dhow>>
    /\ UNCHANGED <<droot, dsess, dterm, dorig, dconnx, dtable, ddet, dkeys, dleft,
                   dagain>>
    /\ DetachOthers

\* readFromStdin forwards a keystroke.
ClientForwardsKey ==
    /\ dclient = "attached"
    /\ dkeys > 0
    /\ dkeys' = dkeys - 1
    /\ dwire' = dwire \o <<"a">>
    /\ dwritten' = dwritten \o <<"a">>
    /\ UNCHANGED <<droot, dalive, dsess, dclient, dterm, dorig, dsig, dconnx, dtable,
                   ddet, dleft>>
    /\ UNCHANGED <<dhow, dagain>>
    /\ DetachOthers

\* readFromStdin reads the single byte 0x18 with Ctrl-X enabled: detach().
ClientCtrlX ==
    /\ dclient = "attached"
    /\ dwire' = detachWrites(dwire)
    /\ dwritten' = detachWrites(dwritten)
    /\ dclient' = "detaching"
    /\ dhow' = "ctrlx"
    /\ UNCHANGED <<droot, dalive, dsess, dterm, dorig, dsig, dconnx, dtable, ddet,
                   dkeys, dleft, dagain>>
    /\ DetachOthers

\* done is closed: both readers return, run's wg.Wait returns, and cleanup
\* restores the terminal and closes the connection.
ClientRunEnds ==
    /\ dclient = "detaching"
    /\ dterm' = restoreTerminal(dterm, dorig)
    /\ dconnx' = "closed"
    /\ dclient' = "cleaned"
    /\ UNCHANGED <<droot, dalive, dsess, dorig, dsig, dwire, dwritten, dtable, ddet,
                   dkeys, dleft>>
    /\ UNCHANGED <<dhow, dagain>>
    /\ DetachOthers

\* c.Attach() returned nil: manager.ClearCurrentSession(), and the launcher
\* exits.
ClientExits ==
    /\ dclient = "cleaned"
    /\ droot' = ClearCurrentSession(droot)
    /\ dalive' = dalive \ {AttachedPid}
    /\ dsig' = dsig \ {AttachedPid}
    /\ dclient' = "exited"
    /\ UNCHANGED <<dsess, dterm, dorig, dwire, dwritten, dconnx, dtable, ddet, dkeys,
                   dleft>>
    /\ UNCHANGED <<dhow, dagain>>
    /\ DetachOthers

\* clientReadLoop reads what has arrived, as one chunk: DISCONNECT alone
\* removes the client; anything else is handled and the loop goes on.
SupReadsChunk ==
    /\ dtable
    /\ dwire # <<>>
    /\ dwire' = <<>>
    /\ dtable' = (HandleChunk(dwire).effect # "disconnect")
    /\ UNCHANGED <<droot, dalive, dsess, dclient, dterm, dorig, dsig, dwritten, dconnx,
                   ddet, dkeys, dleft>>
    /\ UNCHANGED <<dhow, dagain>>
    /\ DetachOthers

\* clientReadLoop reads the end of the stream: removeClient.
SupReadsEof ==
    /\ dtable
    /\ dwire = <<>>
    /\ dconnx = "closed"
    /\ dtable' = FALSE
    /\ UNCHANGED <<droot, dalive, dsess, dclient, dterm, dorig, dsig, dwire, dwritten,
                   dconnx, ddet, dkeys, dleft>>
    /\ UNCHANGED <<dhow, dagain>>
    /\ DetachOthers

\* After the client has exited, a launcher of PID LaterPid runs handleAttach
\* for the same session: GetSession, SetCurrentSession, and c.Attach() dials
\* the socket.  The behaviour makes no detach invocation from then on.
LaterPid == MaxId + 2

LaterAttachBegins ==
    /\ dclient = "exited"
    /\ dagain = "none"
    /\ LET G == GetSession(droot, dalive \cup {LaterPid}, dsess)
       IN IF G.res = "ok"
          THEN /\ droot' = SetCurrentSession(G.root, dsess, LaterPid)
               /\ dalive' = dalive \cup {LaterPid}
               /\ dagain' = "queued"
          ELSE /\ droot' = G.root
               /\ dagain' = "failed"
               /\ UNCHANGED dalive
    /\ dleft' = 0
    /\ UNCHANGED <<dsess, dclient, dterm, dorig, dsig, dwire, dwritten, dconnx, dtable,
                   ddet, dkeys, dhow>>
    /\ DetachOthers

\* acceptConnections takes the later connection: handleNewConnection greets
\* it with READY when the table is empty, with ERROR (and closes it) otherwise.
SupAcceptsLater ==
    /\ dagain = "queued"
    /\ dagain' = IF TableBusy(IF dtable THEN {1} ELSE {}) THEN "error" ELSE "ready"
    /\ UNCHANGED <<droot, dalive, dsess, dclient, dterm, dorig, dsig, dwire, dwritten,
                   dconnx, dtable, ddet, dkeys, dleft, dhow>>
    /\ DetachOthers

\* The later c.Attach() returns the error: ClearCurrentSession, exit 1.
LaterAttachRejected ==
    /\ dagain = "error"
    /\ dagain' = "failed"
    /\ droot' = ClearCurrentSession(droot)
    /\ dalive' = dalive \ {LaterPid}
    /\ UNCHANGED <<dsess, dclient, dterm, dorig, dsig, dwire, dwritten, dconnx, dtable,
                   ddet, dkeys, dleft, dhow>>
    /\ DetachOthers

InitDetach ==
    /\ \E n \in Ids, client \in {"attached", "gone"}, mode \in Modes :
          DetachStart(n, AttachedPid, client, mode, MaxDetach, MaxKeys)
    /\ RegIdle /\ DaemonInit /\ ClientIdle /\ CurrentIdle /\ WireInit
    /\ OpsIdle /\ ListIdle /\ LockIdle /\ MoreIdle

ClientSteps ==
    \/ Usr1Delivered(AttachedPid)
    \/ ClientRunEnds
    \/ ClientExits

NextDetach ==
    \/ handleDetach
    \/ \E pid \in dsig : Usr1Delivered(pid)
    \/ ClientForwardsKey
    \/ ClientCtrlX
    \/ ClientRunEnds
    \/ ClientExits
    \/ SupReadsChunk
    \/ SupReadsEof
    \/ LaterAttachBegins
    \/ SupAcceptsLater
    \/ LaterAttachRejected

\* The client's goroutines and the supervisor's read loop keep running.
SpecDetach ==
    /\ InitDetach
    /\ [][NextDetach]_vars
    /\ WF_vars(ClientSteps)
    /\ WF_vars(SupReadsChunk \/ SupReadsEof)

\* ===================================================== session numbers
NormOthers ==
    /\ UNCHANGED <<regVars, daemonVars, clientVars, curVars, wireVars, opVars, listVars,
                   lockVars, detVars, launchVars, runVars, lateVars>>

\* strconv.Atoi: an optional sign followed by one or more decimal digits, and
\* nothing else; [val, err].  The strings here are far too short for the
\* range error of a value beyond 64 bits.
strconvAtoi(s) ==
    LET signed == s # <<>> /\ s[1] \in {"+", "-"}
        digits == IF signed THEN Tail(s) ELSE s
    IN IF ~AllDigits(digits)
       THEN [val |-> 0, err |-> TRUE]
       ELSE [val |-> IF signed /\ s[1] = "-" THEN 0 - DecimalValue(digits)
                     ELSE DecimalValue(digits),
             err |-> FALSE]

\* fmt's %d of an int: no padding.
SprintfD(n) == IF n < 0 THEN <<"-">> \o Itoa(0 - n) ELSE Itoa(n)

\* fmt's %03d of an int: zeros after the sign up to a width of three.
Sprintf03dInt(n) ==
    IF n >= 0 THEN Sprintf03d(n)
    ELSE LET d == Itoa(0 - n) IN
         IF Len(d) >= 2 THEN <<"-">> \o d ELSE <<"-", "0">> \o d

NormalizeSessionNumber(number) ==
    LET a == strconvAtoi(number) IN
    IF a.err THEN number ELSE Sprintf03dInt(a.val)

NormChars == {"0", "1", "9", "+", "-", "a"}

NormInputs == UNION {[1..k -> NormChars] : k \in 0..MaxStr}

CallNormalize ==
    /\ ~zdone
    /\ zout' = NormalizeSessionNumber(zin)
    /\ zagain' = NormalizeSessionNumber(NormalizeSessionNumber(zin))
    /\ zdone' = TRUE
    /\ UNCHANGED zin
    /\ NormOthers

InitNorm ==
    /\ \E x \in NormInputs : NormStart(x)
    /\ RegIdle /\ DaemonInit /\ ClientIdle /\ CurrentIdle /\ WireInit
    /\ OpsIdle /\ ListIdle /\ LockIdle /\ DetachIdle /\ LaunchIdle /\ RunIdle
    /\ LateIdle

NextNorm == CallNormalize

SpecNorm == InitNorm /\ [][NextNorm]_vars

\* ================================================ launcher invocations
\* main() of a launcher of PID LaunchPid: session.NewManager, then one
\* handler.  The invocations do not overlap.  A handler that attaches stays in
\* c.Attach() (phase "attached") until AttachReturns.
LaunchOthers ==
    /\ UNCHANGED <<regVars, daemonVars, clientVars, curVars, wireVars, opVars, listVars,
                   lockVars, detVars, normVars, runVars, lateVars>>

LaunchPid == MaxId + 2
LaunchPids == 1..(MaxId + 2)

\* Permission bits of a directory; a umask is the set of bits it clears.
Perm0700 == {"ur", "uw", "ux"}
Perm0755 == {"ur", "uw", "ux", "gr", "gx", "or", "ox"}
Umask022 == {"gw", "ow"}
Umask077 == {"gr", "gw", "gx", "or", "ow", "ox"}

\* The umasks an invocation is run under; the umask plays no part once the
\* directory exists.
Umasks(dir) == IF dir.exists THEN {Umask022} ELSE {Umask022, Umask077}

\* os.MkdirAll(path, perm): nil at once when the path is a directory; else the
\* directory is made with perm less the umask.
MkdirAll(dir, perm, umask) ==
    IF dir.exists THEN dir ELSE [exists |-> TRUE, perm |-> perm \ umask]

\* session.NewManager: os.MkdirAll(baseDir, 0700).
NewManager(dir, umask) == MkdirAll(dir, Perm0700, umask)

\* syscall.Kill(pid, 0): the errno.
Kill0(procs, pid) ==
    CASE procs[pid] = "own" -> "nil"
      [] procs[pid] = "other" -> "EPERM"
      [] OTHER -> "ESRCH"

\* The PIDs for which syscall.Kill(pid, 0) returns nil.
Answering(procs) == {pid \in DOMAIN procs : Kill0(procs, pid) = "nil"}

\* An IsInSession that never finds SESS_NUM set.
NeverInSession(env) == FALSE

\* Manager.IsInSession: os.Getenv("SESS_NUM") != "".
IsInSession(env) == env # <<>>

\* The values of SESS_NUM: unset, or inside session 001.
EnvValues == {<<>>, <<"0", "0", "1">>}

\* The storage roots an invocation can meet: a socket beside each metadata
\* file, any current-attachment file.
LaunchRoots ==
    {[EmptyRoot EXCEPT !.meta = m, !.sock = m, !.cur = c] : m \in OpMetas, c \in OpCurFiles}

\* The process tables that go with root R: a recorded shell may be gone, the
\* user's, or by now another user's; the attached launcher may be gone.
LaunchProcs(R) ==
    {f \in [LaunchPids -> {"none", "own", "other"}] :
        /\ f[LaunchPid] = "none"
        /\ f[AttachedPid] # "other"
        /\ \A n \in Ids : R.meta[n] = 0 => f[SessionPid(n)] = "none"}

\* While the invocation runs its own PID answers.
Running(procs) == [procs EXCEPT ![LaunchPid] = "own"]

\* The supervisor the launcher spawns for session n starts a shell of PID
\* pid, writes the metadata and binds the socket.
SupervisorStarts(R, n, pid) == startListener(writeMetadata(R, n, pid), n, n)

FreePids(procs) == {pid \in 1..MaxId : procs[pid] = "none"}

\* How an invocation leaves the state: cmd, env and id name it; R and procs
\* are the root and the process table it leaves.
Ends(cmd, env, id, umask, R, procs, how) ==
    /\ nleft > 0
    /\ nrun.phase = "done"
    /\ nleft' = nleft - 1
    /\ ndir' = NewManager(ndir, umask)
    /\ nroot' = R
    /\ nprocs' = procs
    /\ nrun' = [NoRun EXCEPT !.cmd = cmd, !.env = env, !.id = id, !.exit = how.exit,
                            !.msg = how.msg, !.named = how.named, !.phase = how.phase,
                            !.spawned = how.spawned, !.set = how.set,
                            !.preset = how.preset, !.before = nroot,
                            !.dirBefore = ndir, !.procsBefore = nprocs]
    /\ LaunchOthers

Exits(code, msg, named) ==
    [exit |-> code, msg |-> msg, named |-> named, phase |-> "done", spawned |-> 0,
     set |-> FALSE, preset |-> EmptyRoot]

\* SetCurrentSession was called on root R and c.Attach() is running.
Attaches(R, spawned) ==
    [exit |-> 0, msg |-> "none", named |-> <<>>, phase |-> "attached",
     spawned |-> spawned, set |-> TRUE, preset |-> R]

\* handleCreate.
RunCreate(env, umask) ==
    IF IsInSession(env)
    THEN Ends("create", env, 0, umask, nroot, nprocs, Exits(1, "nested", env))
    ELSE /\ nroot.lock = 0
         /\ LET L == listSessionsUnsafe([nroot EXCEPT !.lock = LaunchPid],
                                        Answering(Running(nprocs)))
                n == NextNumber(L.sessions)
                R == ReleaseLock(L.root)
            IN /\ n \in Ids
               /\ FreePids(nprocs) # {}
               /\ LET pid == CHOOSE x \in FreePids(nprocs) : \A y \in FreePids(nprocs) : x <= y
                      R1 == SupervisorStarts(R, n, pid)
                  IN Ends("create", env, n, umask, SetCurrentSession(R1, n, LaunchPid),
                          [Running(nprocs) EXCEPT ![pid] = "own"], Attaches(R1, n))

\* handleAttach for session n, after its self-attach test.
AttachTo(cmd, env, n, umask) ==
    LET G == GetSession(nroot, Answering(Running(nprocs)), n) IN
    IF G.res # "ok"
    THEN Ends(cmd, env, n, umask, G.root, nprocs, Exits(1, G.res, <<>>))
    ELSE Ends(cmd, env, n, umask, SetCurrentSession(G.root, n, LaunchPid),
              Running(nprocs), Attaches(G.root, 0))

\* handleAttach.
RunAttach(env, umask, n) ==
    IF IsInSession(env) /\ env = NormalizeSessionNumber(Itoa(n))
    THEN Ends("attach", env, n, umask, nroot, nprocs, Exits(1, "selfattach", env))
    ELSE AttachTo("attach", env, n, umask)

\* handleAttachCreate.
RunAttachCreate(env, umask, n) ==
    IF IsInSession(env)
    THEN Ends("attachcreate", env, n, umask, nroot, nprocs, Exits(1, "nested", env))
    ELSE LET G == GetSession(nroot, Answering(Running(nprocs)), n) IN
         IF G.res = "ok"
         THEN AttachTo("attachcreate", env, n, umask)
         ELSE /\ FreePids(nprocs) # {}
              /\ LET pid == CHOOSE x \in FreePids(nprocs) : \A y \in FreePids(nprocs) : x <= y
                     R1 == SupervisorStarts(G.root, n, pid)
                 IN Ends("attachcreate", env, n, umask,
                         SetCurrentSession(R1, n, LaunchPid),
                         [Running(nprocs) EXCEPT ![pid] = "own"], Attaches(R1, n))

\* handleList: ListSessions under the lock, then GetCurrentSession unless the
\* list is empty or SESS_NUM names the current session.
RunList(env, umask) ==
    /\ nroot.lock = 0
    /\ LET alive == Answering(Running(nprocs))
           L == listSessionsUnsafe([nroot EXCEPT !.lock = LaunchPid], alive)
           R == ReleaseLock(L.root)
       IN Ends("list", env, 0, umask,
               IF L.sessions = {} \/ IsInSession(env) THEN R
               ELSE GetCurrentSession(R, alive).root,
               nprocs, Exits(0, "none", <<>>))

\* c.Attach() returns, with an error or without: ClearCurrentSession, and
\* the launcher exits.
AttachReturns(failed) ==
    /\ nrun.phase = "attached"
    /\ nroot' = ClearCurrentSession(nroot)
    /\ nprocs' = [nprocs EXCEPT ![LaunchPid] = "none"]
    /\ nrun' = [nrun EXCEPT !.phase = "done", !.exit = IF failed THEN 1 ELSE 0]
    /\ UNCHANGED <<ndir, nleft>>
    /\ LaunchOthers

InitLaunch ==
    /\ \/ LaunchStart(NoDir, EmptyRoot, [pid \in LaunchPids |-> "none"], MaxLaunch)
       \/ \E perm \in {Perm0700, Perm0755}, R \in LaunchRoots :
             \E procs \in LaunchProcs(R) :
                LaunchStart([exists |-> TRUE, perm |-> perm], R, procs, MaxLaunch)
    /\ RegIdle /\ DaemonInit /\ ClientIdle /\ CurrentIdle /\ WireInit
    /\ OpsIdle /\ ListIdle /\ LockIdle /\ DetachIdle /\ NormIdle /\ RunIdle
    /\ LateIdle

NextLaunch ==
    \/ \E env \in EnvValues, umask \in Umasks(ndir) :
          \/ RunCreate(env, umask)
          \/ RunList(env, umask)
          \/ \E n \in Ids : RunAttach(env, umask, n) \/ RunAttachCreate(env, umask, n)
    \/ \E failed \in BOOLEAN : AttachReturns(failed)

SpecLaunch == InitLaunch /\ [][NextLaunch]_vars

\* ============================================ the running supervisor
\* One supervisor process from the start of its tasks in run() until
\* its process ends, with its shell child and the signals the two receive.
RunOthers ==
    /\ UNCHANGED <<regVars, daemonVars, clientVars, curVars, wireVars, opVars, listVars,
                   lockVars, detVars, normVars, launchVars, lateVars>>

RunAlive == rmain \notin {"exited", "failed"}

\* syscall.WaitStatus as wait4(2) fills it: exit code c is c * 256, death by
\* signal number n is n.
ExitStatus(code) == code * 256
SignalStatus(n) == n
SigNumber(sig) == IF sig = "SIGKILL" THEN 9 ELSE IF sig = "SIGHUP" THEN 1 ELSE 15

\* WaitStatus.Exited: w&0x7F == 0.  WaitStatus.Signaled: w&0x7F is neither
\* 0x7F (stopped) nor 0 (exited).
Exited(w) == w % 128 = 0
Signaled(w) == (w % 128) \notin {0, 127}

\* syscall.Wait4(pid, &status, WNOHANG, nil): a zombie is reaped and its
\* status returned; a child that has not changed state gives wpid 0 and
\* leaves status at its zero value (stops are not asked for: no WUNTRACED);
\* no such child gives ECHILD.
Wait4NoHang(sh) ==
    IF sh.state = "zombie"
    THEN [wpid |-> 1, err |-> "nil", status |-> sh.status,
          shell |-> [state |-> "reaped", status |-> 0]]
    ELSE IF sh.state \in {"running", "stopped"}
    THEN [wpid |-> 0, err |-> "nil", status |-> 0, shell |-> sh]
    ELSE [wpid |-> 0 - 1, err |-> "ECHILD", status |-> 0, shell |-> sh]

\* The test of the SIGCHLD case: err == nil && (status.Exited() ||
\* status.Signaled()); the returned wpid is discarded.
WaitSaysGone(w) == w.err = "nil" /\ (Exited(w.status) \/ Signaled(w.status))

\* signal.Notify's delivery: a send that does not block; a signal that finds
\* sigChan full is dropped.
Notify(q, sig) == IF Len(q) < 1 THEN Append(q, sig) ELSE q

\* A signal for the supervisor: delivered to sigChan while the signal
\* goroutine receives from it (what the channel holds afterwards is never
\* read, and is left out).
Delivered(sig) == IF rsigpc = "loop" THEN Notify(rsigq, sig) ELSE rsigq

\* A select that never finds ctx.Done() ready.
NeverDone(ctx) == FALSE

\* <-d.ctx.Done() is ready.
CtxDone(ctx) == ctx = "done"

\* d.cancel(): the first call closes ctx.Done(), the later ones do nothing.
RunCancel(sig) ==
    /\ rctx' = "done"
    /\ rwhy' = IF rctx = "done" THEN rwhy
               ELSE IF sig # "SIGCHLD" THEN "SIGTERM or SIGINT"
               ELSE IF rshell.state = "zombie" THEN "SIGCHLD"
               ELSE "SIGCHLD, shell not exited"

\* ------------------------------------------------ the shell and signals
\* The shell exits by itself with exit code code: SIGCHLD for the supervisor.
ShellExits(code) ==
    /\ rshell.state = "running"
    /\ rshell' = [state |-> "zombie", status |-> ExitStatus(code)]
    /\ rsigq' = Delivered("SIGCHLD")
    /\ UNCHANGED <<rctx, rwhy, rsigpc, rmain, rtask, rlisten, rtable, rconn,
                   rreaders, rpend, rpty, rfiles>>
    /\ RunOthers

\* Someone kills the shell with a signal it dies of (sess -k, kill -9).
ShellKilled(sig) ==
    /\ rshell.state \in {"running", "stopped"}
    /\ rshell.state = "stopped" => sig = "SIGKILL"
    /\ rshell' = [state |-> "zombie", status |-> SignalStatus(SigNumber(sig))]
    /\ rsigq' = Delivered("SIGCHLD")
    /\ UNCHANGED <<rctx, rwhy, rsigpc, rmain, rtask, rlisten, rtable, rconn,
                   rreaders, rpend, rpty, rfiles>>
    /\ RunOthers

\* The shell is stopped (SIGSTOP): the parent gets SIGCHLD, the Go runtime
\* installs its handler without SA_NOCLDSTOP.
ShellStops ==
    /\ rshell.state = "running"
    /\ rshell' = [rshell EXCEPT !.state = "stopped"]
    /\ rsigq' = Delivered("SIGCHLD")
    /\ UNCHANGED <<rctx, rwhy, rsigpc, rmain, rtask, rlisten, rtable, rconn,
                   rreaders, rpend, rpty, rfiles>>
    /\ RunOthers

\* The stopped shell is continued (SIGCONT): SIGCHLD again.
ShellContinues ==
    /\ rshell.state = "stopped"
    /\ rshell' = [rshell EXCEPT !.state = "running"]
    /\ rsigq' = Delivered("SIGCHLD")
    /\ UNCHANGED <<rctx, rwhy, rsigpc, rmain, rtask, rlisten, rtable, rconn,
                   rreaders, rpend, rpty, rfiles>>
    /\ RunOthers

\* Someone sends SIGTERM or SIGINT to the supervisor.
SupSignalled(sig) ==
    /\ RunAlive
    /\ rsigq' = Delivered(sig)
    /\ UNCHANGED <<rctx, rwhy, rshell, rsigpc, rmain, rtask, rlisten, rtable, rconn,
                   rreaders, rpend, rpty, rfiles>>
    /\ RunOthers

\* The signal goroutine receives from sigChan.
SignalReceived ==
    /\ RunAlive
    /\ rsigpc = "loop"
    /\ rsigq # <<>>
    /\ rsigq' = Tail(rsigq)
    /\ IF Head(rsigq) = "SIGCHLD"
       THEN LET w == Wait4NoHang(rshell)
            IN /\ rshell' = w.shell
               /\ IF WaitSaysGone(w)
                  THEN RunCancel("SIGCHLD")
                  ELSE UNCHANGED <<rctx, rwhy>>
       ELSE /\ RunCancel(Head(rsigq))
            /\ UNCHANGED rshell
    /\ UNCHANGED <<rsigpc, rmain, rtask, rlisten, rtable, rconn, rreaders,
                   rpend, rpty, rfiles>>
    /\ RunOthers

\* The signal goroutine finds ctx.Done() ready and returns.
SignalReturns ==
    /\ RunAlive
    /\ rsigpc = "loop"
    /\ CtxDone(rctx)
    /\ rsigpc' = "returned"
    /\ rsigq' = <<>>
    /\ UNCHANGED <<rctx, rwhy, rshell, rmain, rtask, rlisten, rtable, rconn,
                   rreaders, rpend, rpty, rfiles>>
    /\ RunOthers

\* ------------------------------------------------- the main goroutine
\* <-d.ctx.Done() returns in run, or a step of Start has failed after the
\* shell was started; cleanup, under the mutex: every connection of the
\* table is closed and the table replaced by an empty one.
CleanupClients ==
    /\ \/ rmain = "waiting" /\ CtxDone(rctx)
       \/ rmain = "start failed"
    /\ rmain' = "clients closed"
    /\ rconn' = [c \in RunConns |-> IF c \in rtable THEN "closed" ELSE rconn[c]]
    /\ rtable' = {}
    /\ UNCHANGED <<rctx, rwhy, rshell, rsigq, rsigpc, rtask, rlisten, rreaders,
                   rpend, rpty, rfiles>>
    /\ RunOthers

\* cleanup: the listener is closed (the connections still queued are reset)
\* and SIGTERM is sent to the shell; then cleanup sleeps one second.
CleanupListener ==
    /\ rmain = "clients closed"
    /\ rmain' = "sleeping"
    /\ rlisten' = "closed"
    /\ rconn' = [c \in RunConns |-> IF rconn[c] = "queued" THEN "closed" ELSE rconn[c]]
    /\ UNCHANGED <<rctx, rwhy, rshell, rsigq, rsigpc, rtask, rtable, rreaders,
                   rpend, rpty, rfiles>>
    /\ RunOthers

\* A cleanup that removes no file.
KeepRunFiles(files) == files

\* The three os.Remove calls that end cleanup.
RemoveRunFiles(files) == [sock |-> FALSE, meta |-> FALSE, cur |-> FALSE]

\* cleanup after the sleep: Process.Kill, both ends of the PTY closed, the
\* socket, the metadata file and .current_session removed.  Called from run,
\* run goes on to wg.Wait; called from Start, Start returns its error and
\* runDaemon exits with status 1.
CleanupKill ==
    /\ rmain = "sleeping"
    /\ rmain' = IF rtask.accept = "none" THEN "failed" ELSE "wg.Wait"
    /\ rshell' = IF rshell.state \in {"running", "stopped"}
                 THEN [state |-> "zombie", status |-> SignalStatus(SigNumber("SIGKILL"))]
                 ELSE rshell
    /\ rsigq' = IF rshell.state \in {"running", "stopped"}
                THEN Delivered("SIGCHLD") ELSE rsigq
    /\ rpty' = [master |-> "closed", slave |-> "closed"]
    /\ rfiles' = RemoveRunFiles(rfiles)
    /\ UNCHANGED <<rctx, rwhy, rsigpc, rtask, rlisten, rtable, rconn,
                   rreaders, rpend>>
    /\ RunOthers

\* wg.Wait returns once the three tasks have returned; run, Start, runDaemon
\* and main return: the process ends and the kernel closes what it held.
RunReturns ==
    /\ rmain = "wg.Wait"
    /\ \A t \in DOMAIN rtask : rtask[t] = "returned"
    /\ rmain' = "exited"
    /\ rconn' = [c \in RunConns |-> IF rconn[c] = "open" THEN "closed" ELSE rconn[c]]
    /\ rtable' = {}
    /\ rreaders' = {}
    /\ rpend' = {}
    /\ rsigq' = <<>>
    /\ rsigpc' = "returned"
    /\ UNCHANGED <<rctx, rwhy, rshell, rtask, rlisten, rpty, rfiles>>
    /\ RunOthers

\* ------------------------------------------------------ acceptConnections
\* The select at the top of the loop finds ctx.Done() ready: return.  (An
\* Accept that fails, by its one-second deadline or on the closed listener,
\* leads back to the select.)
AcceptReturns ==
    /\ rtask.accept = "loop"
    /\ CtxDone(rctx)
    /\ rtask' = [rtask EXCEPT !.accept = "returned"]
    /\ UNCHANGED <<rctx, rwhy, rshell, rsigq, rsigpc, rmain, rlisten, rtable, rconn,
                   rreaders, rpend, rpty, rfiles>>
    /\ RunOthers

\* Accept returns connection c: handleNewConnection(c).  The task may have
\* been in Accept since before the cancellation.
AcceptConn(c) ==
    /\ rtask.accept = "loop"
    /\ rlisten = "open"
    /\ rconn[c] = "queued"
    /\ IF TableBusy(rtable)
       THEN /\ rconn' = [rconn EXCEPT ![c] = "closed"]
            /\ UNCHANGED <<rtable, rreaders>>
       ELSE /\ rconn' = [rconn EXCEPT ![c] = "open"]
            /\ rtable' = rtable \cup {c}
            /\ rreaders' = rreaders \cup {c}
    /\ UNCHANGED <<rctx, rwhy, rshell, rsigq, rsigpc, rmain, rtask, rlisten, rpend,
                   rpty, rfiles>>
    /\ RunOthers

\* A launcher attaches: it has written .current_session (SetCurrentSession
\* precedes Attach in the handlers) and dials the socket; the connection
\* waits in the listener's queue.
RunDial(c) ==
    /\ rconn[c] = "free"
    /\ \A b \in RunConns : b < c => rconn[b] # "free"
    /\ rlisten = "open" /\ rfiles.sock /\ RunAlive
    /\ rconn' = [rconn EXCEPT ![c] = "queued"]
    /\ rfiles' = [rfiles EXCEPT !.cur = TRUE]
    /\ UNCHANGED <<rctx, rwhy, rshell, rsigq, rsigpc, rmain, rtask, rlisten, rtable,
                   rreaders, rpend, rpty>>
    /\ RunOthers

\* ------------------------------------------------------------- handlePTY
\* ptyMaster.Read on the non-blocking master gives n > 0 bytes, which
\* broadcastToClients writes to every connection of the table: each write
\* that fails (failed) gets a "go d.removeClient(conn)".  (EAGAIN leads back
\* to the select after a sleep.)  The task may have been in Read since
\* before the cancellation.
PtyRead(failed) ==
    /\ rtask.pty = "loop"
    /\ rpty.master = "open"
    /\ failed \subseteq rtable
    /\ failed # {}
    /\ rpend' = rpend \cup failed
    /\ UNCHANGED <<rctx, rwhy, rshell, rsigq, rsigpc, rmain, rtask, rlisten, rtable,
                   rconn, rreaders, rpty, rfiles>>
    /\ RunOthers

\* The select finds ctx.Done() ready, or ptyMaster.Read fails with another
\* error (the master is closed): return.
PtyReturns ==
    /\ rtask.pty = "loop"
    /\ CtxDone(rctx) \/ rpty.master = "closed"
    /\ rtask' = [rtask EXCEPT !.pty = "returned"]
    /\ UNCHANGED <<rctx, rwhy, rshell, rsigq, rsigpc, rmain, rlisten, rtable, rconn,
                   rreaders, rpend, rpty, rfiles>>
    /\ RunOthers

\* --------------------------------------------------------- monitorClients
\* The ticker fires: checkClientTimeouts schedules a removeClient for every
\* connection idle for more than connectionTimeout (idle).
MonitorTick(idle) ==
    /\ rtask.monitor = "loop"
    /\ idle \subseteq rtable
    /\ idle # {}
    /\ rpend' = rpend \cup idle
    /\ UNCHANGED <<rctx, rwhy, rshell, rsigq, rsigpc, rmain, rtask, rlisten, rtable,
                   rconn, rreaders, rpty, rfiles>>
    /\ RunOthers

MonitorReturns ==
    /\ rtask.monitor = "loop"
    /\ CtxDone(rctx)
    /\ rtask' = [rtask EXCEPT !.monitor = "returned"]
    /\ UNCHANGED <<rctx, rwhy, rshell, rsigq, rsigpc, rmain, rlisten, rtable, rconn,
                   rreaders, rpend, rpty, rfiles>>
    /\ RunOthers

\* ------------------------------------------- removeClient, clientReadLoop
\* A removeClient that empties the table whatever connection it is given.
TableEmptied(table, c) == {}

\* delete(d.clients, conn).
TableWithout(table, c) == table \ {c}

\* removeClient(c) under the mutex: close and delete, when still in the table.
RunRemoveClient(c) ==
    /\ rtable' = TableWithout(rtable, c)
    /\ rconn' = [b \in RunConns |->
                   IF b \in rtable /\ b \notin rtable' THEN "closed" ELSE rconn[b]]

\* A scheduled removeClient goroutine runs.
RemovalRuns(c) ==
    /\ RunAlive
    /\ c \in rpend
    /\ rpend' = rpend \ {c}
    /\ RunRemoveClient(c)
    /\ UNCHANGED <<rctx, rwhy, rshell, rsigq, rsigpc, rmain, rtask, rlisten,
                   rreaders, rpty, rfiles>>
    /\ RunOthers

\* clientReadLoop's Read fails (the peer hung up, or the connection was
\* closed under it) or reads "DISCONNECT\n": removeClient, return.
ReaderRemoves(c) ==
    /\ RunAlive
    /\ c \in rreaders
    /\ rreaders' = rreaders \ {c}
    /\ RunRemoveClient(c)
    /\ UNCHANGED <<rctx, rwhy, rshell, rsigq, rsigpc, rmain, rtask, rlisten, rpend,
                   rpty, rfiles>>
    /\ RunOthers

\* clientReadLoop finds ctx.Done() ready and returns.
ReaderReturns(c) ==
    /\ RunAlive
    /\ c \in rreaders
    /\ CtxDone(rctx)
    /\ rreaders' = rreaders \ {c}
    /\ UNCHANGED <<rctx, rwhy, rshell, rsigq, rsigpc, rmain, rtask, rlisten, rtable,
                   rconn, rpend, rpty, rfiles>>
    /\ RunOthers

\* ------------------------------------------------------------------ runs
InitRun ==
    /\ RunStart(FALSE)
    /\ RegIdle /\ DaemonInit /\ ClientIdle /\ CurrentIdle /\ WireInit
    /\ OpsIdle /\ ListIdle /\ LockIdle /\ DetachIdle /\ NormIdle /\ LaunchIdle
    /\ LateIdle

\* What the shell and the other processes do.
RunEnvironment ==
    \/ ShellExits(1)
    \/ ShellKilled("SIGKILL")
    \/ ShellStops
    \/ ShellContinues
    \/ \E sig \in {"SIGTERM", "SIGINT"} : SupSignalled(sig)
    \/ \E c \in RunConns : RunDial(c)

RunMain ==
    CleanupClients \/ CleanupListener \/ CleanupKill \/ RunReturns

RunAccept == AcceptReturns \/ \E c \in RunConns : AcceptConn(c)

RunPty == PtyReturns \/ \E failed \in SUBSET RunConns : PtyRead(failed)

RunClients ==
    \E c \in RunConns : RemovalRuns(c) \/ ReaderRemoves(c) \/ ReaderReturns(c)

NextRun ==
    \/ RunEnvironment
    \/ RunMain
    \/ SignalReceived
    \/ SignalReturns
    \/ RunAccept
    \/ RunPty
    \/ \E idle \in SUBSET RunConns : MonitorTick(idle)
    \/ MonitorReturns
    \/ RunClients

SpecRun == InitRun /\ [][NextRun]_vars

\* The goroutines are scheduled by the Go runtime, which starves none of
\* them, and every blocking call they make has a deadline or returns when
\* cleanup closes what it waits on; the environment owes nothing.
RunFairness ==
    /\ WF_vars(RunMain)
    /\ WF_vars(SignalReceived)
    /\ WF_vars(AcceptReturns)
    /\ WF_vars(PtyReturns)
    /\ WF_vars(MonitorReturns)

SpecRunFair == InitRun /\ [][NextRun]_vars /\ RunFairness

\* ============================================== the starting supervisor
\* One supervisor process from the call of Start until it enters run or
\* returns an error.  sock and cur tell whether a stale socket file and a
\* .current_session file lie in the directory.
StartInit(sock, cur) ==
    /\ rctx = "live"
    /\ rwhy = "none"
    /\ rshell = [state |-> "none", status |-> 0]
    /\ rsigq = <<>>
    /\ rsigpc = "none"
    /\ rmain = "start"
    /\ rtask = [accept |-> "none", pty |-> "none", monitor |-> "none"]
    /\ rlisten = "closed"
    /\ rtable = {}
    /\ rconn = [c \in RunConns |-> "free"]
    /\ rreaders = {}
    /\ rpend = {}
    /\ rpty = [master |-> "closed", slave |-> "closed"]
    /\ rfiles = [sock |-> sock, meta |-> FALSE, cur |-> cur]

\* openPTY: both ends opened, the master made non-blocking.
StartOpenPTY ==
    /\ rmain = "start"
    /\ rmain' = "pty open"
    /\ rpty' = [master |-> "open", slave |-> "open"]
    /\ UNCHANGED <<rctx, rwhy, rshell, rsigq, rsigpc, rtask, rlisten, rtable, rconn,
                   rreaders, rpend, rfiles>>
    /\ RunOthers

\* openPTY fails (it closes what it opened): Start returns the error.
StartOpenPTYFails ==
    /\ rmain = "start"
    /\ rmain' = "failed"
    /\ UNCHANGED <<rctx, rwhy, rshell, rsigq, rsigpc, rtask, rlisten, rtable, rconn,
                   rreaders, rpend, rpty, rfiles>>
    /\ RunOthers

\* startShell: the shell runs on the slave.
StartShell ==
    /\ rmain = "pty open"
    /\ rmain' = "shell started"
    /\ rshell' = [state |-> "running", status |-> 0]
    /\ UNCHANGED <<rctx, rwhy, rsigq, rsigpc, rtask, rlisten, rtable, rconn,
                   rreaders, rpend, rpty, rfiles>>
    /\ RunOthers

\* startShell fails: ptmx.Close, pts.Close, Start returns the error.
StartShellFails ==
    /\ rmain = "pty open"
    /\ rmain' = "failed"
    /\ rpty' = [master |-> "closed", slave |-> "closed"]
    /\ UNCHANGED <<rctx, rwhy, rshell, rsigq, rsigpc, rtask, rlisten, rtable, rconn,
                   rreaders, rpend, rfiles>>
    /\ RunOthers

\* writeMetadata: the temporary file renamed over the metadata path.
StartWriteMetadata ==
    /\ rmain = "shell started"
    /\ rmain' = "meta written"
    /\ rfiles' = [rfiles EXCEPT !.meta = TRUE]
    /\ UNCHANGED <<rctx, rwhy, rshell, rsigq, rsigpc, rtask, rlisten, rtable, rconn,
                   rreaders, rpend, rpty>>
    /\ RunOthers

\* writeMetadata fails: Start calls cleanup.
StartWriteMetadataFails ==
    /\ rmain = "shell started"
    /\ rmain' = "start failed"
    /\ UNCHANGED <<rctx, rwhy, rshell, rsigq, rsigpc, rtask, rlisten, rtable, rconn,
                   rreaders, rpend, rpty, rfiles>>
    /\ RunOthers

\* startListener: whatever lies at the socket path is removed, the socket is
\* bound and made 0600.
StartListener ==
    /\ rmain = "meta written"
    /\ rmain' = "listening"
    /\ rlisten' = "open"
    /\ rfiles' = [rfiles EXCEPT !.sock = TRUE]
    /\ UNCHANGED <<rctx, rwhy, rshell, rsigq, rsigpc, rtask, rtable, rconn,
                   rreaders, rpend, rpty>>
    /\ RunOthers

\* startListener fails after its os.Remove: in Listen, which binds nothing,
\* or in Chmod, after which it closes the listener, which unlinks the socket;
\* d.listener stays nil and Start calls cleanup.
StartListenerFails ==
    /\ rmain = "meta written"
    /\ rmain' = "start failed"
    /\ rfiles' = [rfiles EXCEPT !.sock = FALSE]
    /\ UNCHANGED <<rctx, rwhy, rshell, rsigq, rsigpc, rtask, rlisten, rtable, rconn,
                   rreaders, rpend, rpty>>
    /\ RunOthers

\* detachFromTerminal fails: Start calls cleanup.
StartDetachFails ==
    /\ rmain = "listening"
    /\ rmain' = "start failed"
    /\ UNCHANGED <<rctx, rwhy, rshell, rsigq, rsigpc, rtask, rlisten, rtable, rconn,
                   rreaders, rpend, rpty, rfiles>>
    /\ RunOthers

\* detachFromTerminal, setupSignalHandlers, and run starts its three tasks.
StartRuns ==
    /\ rmain = "listening"
    /\ rmain' = "waiting"
    /\ rsigpc' = "loop"
    /\ rtask' = [accept |-> "loop", pty |-> "loop", monitor |-> "loop"]
    /\ UNCHANGED <<rctx, rwhy, rshell, rsigq, rlisten, rtable, rconn,
                   rreaders, rpend, rpty, rfiles>>
    /\ RunOthers

InitStart ==
    /\ \E sock \in BOOLEAN, cur \in BOOLEAN : StartInit(sock, cur)
    /\ RegIdle /\ DaemonInit /\ ClientIdle /\ CurrentIdle /\ WireInit
    /\ OpsIdle /\ ListIdle /\ LockIdle /\ DetachIdle /\ NormIdle /\ LaunchIdle
    /\ LateIdle

NextStart ==
    \/ StartOpenPTY
    \/ StartOpenPTYFails
    \/ StartShell
    \/ StartShellFails
    \/ StartWriteMetadata
    \/ StartWriteMetadataFails
    \/ StartListener
    \/ StartListenerFails
    \/ StartDetachFails
    \/ StartRuns
    \/ CleanupClients
    \/ CleanupListener
    \/ CleanupKill
    \/ ShellExits(1)
    \/ ShellKilled("SIGKILL")
    \/ ShellStops
    \/ ShellContinues
    \/ \E c \in RunConns : RunDial(c)

SpecStart == InitStart /\ [][NextStart]_vars

\* ===================================================== readFromStdin
\* The loop of readFromStdin in a client whose Attach has reached run: every
\* step is one os.Stdin.Read that returned n > 0 bytes.  wleft counts the
\* socket writes left to the behaviour, wbuf is what the socket carries,
\* forwarded the stdin bytes written to it; here wlast records the last
\* stdin read: the bytes read, the bytes written for them, and what was done.
CtrlXByte == "^X"
KeyBytes == {"a", CtrlXByte}
KeyChunks == UNION {[1..n -> KeyBytes] : n \in 1..MaxChunk}

\* A test that finds the byte anywhere in the read.
CtrlXAnywhere(chunk, noCtrlX) ==
    ~noCtrlX /\ \E i \in 1..Len(chunk) : chunk[i] = CtrlXByte

\* The test of readFromStdin: !c.disableCtrlX && n == 1 && buffer[0] == 0x18.
CtrlXAlone(chunk, noCtrlX) ==
    ~noCtrlX /\ Len(chunk) = 1 /\ chunk[1] = CtrlXByte

\* The terminal is raw, stdin non-blocking, the readers and the signal
\* goroutine run.
KeysStart(noCtrlX) ==
    /\ cpc = "running"
    /\ termMode = "raw"
    /\ origMode = "cooked"
    /\ isTerminal = TRUE
    /\ nonblock = TRUE
    /\ oldTermState = "cooked"
    /\ done = FALSE
    /\ stdinLoop = "running"
    /\ sessLoop = "running"
    /\ sigLoop = "running"
    /\ disableCtrlX = noCtrlX
    /\ ending = "none"
    /\ closes = [calls |-> 0, closed |-> 0]
    /\ cleanups = 0

KeysOthers == UNCHANGED <<regVars, daemonVars, curVars, restVars>>

\* One read of chunk: detach (DISCONNECT written, closeDone, return) when it
\* is Ctrl-X alone, else rawMode.Write(buffer[:n]), which succeeds.
ReadStdin(chunk) ==
    /\ stdinLoop = "running"
    /\ ~done
    /\ wleft > 0
    /\ wleft' = wleft - 1
    /\ IF CtrlXAlone(chunk, disableCtrlX)
       THEN /\ wbuf' = wbuf \o DisconnectFrame
            /\ wlast' = [chunk |-> chunk, written |-> DisconnectFrame, effect |-> "detach"]
            /\ closeDone("ctrlx")
            /\ stdinLoop' = "returned"
            /\ UNCHANGED forwarded
       ELSE /\ wbuf' = wbuf \o chunk
            /\ forwarded' = forwarded \o chunk
            /\ wlast' = [chunk |-> chunk, written |-> chunk, effect |-> "forward"]
            /\ UNCHANGED <<done, ending, stdinLoop, closes>>
    /\ UNCHANGED <<cpc, termMode, origMode, isTerminal, nonblock, oldTermState,
                   sessLoop, sigLoop, disableCtrlX, cleanups>>
    /\ UNCHANGED <<wopen, pty, winsize>>
    /\ KeysOthers

\* The same read, but rawMode.Write fails: closeDone, return.
ReadStdinWriteFails(chunk) ==
    /\ stdinLoop = "running"
    /\ ~done
    /\ wleft > 0
    /\ ~CtrlXAlone(chunk, disableCtrlX)
    /\ wleft' = wleft - 1
    /\ wlast' = [chunk |-> chunk, written |-> <<>>, effect |-> "write failed"]
    /\ closeDone("socket")
    /\ stdinLoop' = "returned"
    /\ UNCHANGED <<cpc, termMode, origMode, isTerminal, nonblock, oldTermState,
                   sessLoop, sigLoop, disableCtrlX>>
    /\ UNCHANGED <<wbuf, forwarded, wopen, pty, winsize>>
    /\ UNCHANGED cleanups
    /\ KeysOthers

InitKeys ==
    /\ \E noCtrlX \in BOOLEAN : KeysStart(noCtrlX)
    /\ RegIdle /\ DaemonInit /\ CurrentIdle /\ WireInit /\ RestIdle

NextKeys ==
    \E chunk \in KeyChunks : ReadStdin(chunk) \/ ReadStdinWriteFails(chunk)

SpecKeys == InitKeys /\ [][NextKeys]_vars

\* ======================================================== the greeting
\* One client dials a running supervisor whose shell goes on producing
\* output.  The connection is a stream: a read returns every byte written
\* and not yet read (the chunks here stay far below the 256 bytes of
\* Attach's buffer and the 4096 of the proxy's), whatever writes they came
\* from.
OutBytes == {"a", "b"}

GreetOthers ==
    /\ UNCHANGED <<regVars, daemonVars, clientVars, curVars, wireVars, opVars, listVars,
                   lockVars, detVars, normVars, launchVars, runVars, mutexVars>>

\* Attach's test of its first read: response != "READY\n" is an error.
ResponseIsReady(response) == response = ReadyLine

\* net.DialTimeout succeeds: the connection waits in the listener's backlog.
GreetDial ==
    /\ gclient = "start"
    /\ gclient' = "dialled"
    /\ UNCHANGED <<gsup, gsock, gresp, gout, gshown>>
    /\ GreetOthers

\* handleNewConnection with an empty table: register the connection and
\* write READY, all under the table's write lock.
GreetAccept ==
    /\ gclient # "start"
    /\ gsup = "none"
    /\ gsup' = "registered"
    /\ gsock' = IF gclient = "failed" THEN gsock ELSE gsock \o ReadyLine
    /\ UNCHANGED <<gclient, gresp, gout, gshown>>
    /\ GreetOthers

\* handlePTY reads a chunk of shell output and broadcastToClients writes it
\* to every registered connection; with none registered it is dropped.
GreetBroadcast(b) ==
    /\ gout > 0
    /\ gout' = gout - 1
    /\ gsock' = IF gsup = "registered" /\ gclient # "failed"
                THEN gsock \o <<b>>
                ELSE gsock
    /\ UNCHANGED <<gclient, gsup, gresp, gshown>>
    /\ GreetOthers

\* Attach's first conn.Read returns what has arrived; anything other than
\* exactly READY closes the connection and fails the attach.
GreetFirstRead ==
    /\ gclient = "dialled"
    /\ gsock # <<>>
    /\ gresp' = gsock
    /\ gsock' = <<>>
    /\ gclient' = IF ResponseIsReady(gsock) THEN "proxy" ELSE "failed"
    /\ UNCHANGED <<gsup, gout, gshown>>
    /\ GreetOthers

\* The read deadline (connectTimeout) passes with nothing received.
GreetFirstReadTimeout ==
    /\ gclient = "dialled"
    /\ gsock = <<>>
    /\ gclient' = "failed"
    /\ UNCHANGED <<gsup, gsock, gresp, gout, gshown>>
    /\ GreetOthers

\* readFromSession copies what arrives to stdout.
GreetProxyRead ==
    /\ gclient = "proxy"
    /\ gsock # <<>>
    /\ gshown' = gshown \o gsock
    /\ gsock' = <<>>
    /\ UNCHANGED <<gclient, gsup, gresp, gout>>
    /\ GreetOthers

\* The client closed its end: clientReadLoop's read fails, removeClient.
GreetSupRemoves ==
    /\ gclient = "failed"
    /\ gsup = "registered"
    /\ gsup' = "removed"
    /\ UNCHANGED <<gclient, gsock, gresp, gout, gshown>>
    /\ GreetOthers

InitGreet ==
    /\ GreetStart(MaxOut)
    /\ RegIdle /\ DaemonInit /\ ClientIdle /\ CurrentIdle /\ WireInit
    /\ OpsIdle /\ ListIdle /\ LockIdle /\ DetachIdle /\ NormIdle /\ LaunchIdle
    /\ RunIdle /\ MutexIdle

NextGreet ==
    \/ GreetDial
    \/ GreetAccept
    \/ \E b \in OutBytes : GreetBroadcast(b)
    \/ GreetFirstRead
    \/ GreetFirstReadTimeout
    \/ GreetProxyRead
    \/ GreetSupRemoves

SpecGreet == InitGreet /\ [][NextGreet]_vars

\* ================================================ the client-table lock
\* sync.RWMutex as the Go runtime implements it: Lock takes the writers'
\* mutex, announces the writer (from then on RLock blocks) and waits for the
\* readers that hold the lock to leave; Unlock lets in the readers that
\* blocked meanwhile and releases the writers' mutex.
MutexOthers ==
    /\ UNCHANGED <<regVars, daemonVars, clientVars, curVars, wireVars, opVars, listVars,
                   lockVars, detVars, normVars, launchVars, runVars, greetVars>>

Writers == MutexTasks \ {PtyTask}

\* The goroutines that end when they have released the lock.
OneShot == {CleanupTask} \cup RemovalTasks

FreeRemovals(pcs) == {t \in RemovalTasks : pcs[t] = "none"}

\* A removal made by the caller itself, inside its critical section.
RemoveInline(pcs, by) == [pcs EXCEPT ![by] = "wantw"]

\* "go d.removeClient(conn)": a new goroutine, which calls Lock.
ScheduleRemoval(pcs, by) ==
    LET t == CHOOSE x \in FreeRemovals(pcs) : \A y \in FreeRemovals(pcs) : x[2] <= y[2]
    IN [pcs EXCEPT ![t] = "wantw"]

\* d.clientMutex.Lock() is called: handleNewConnection, clientReadLoop (the
\* lastActivity update and removeClient), checkClientTimeouts, cleanup.
MutexLock(t) ==
    /\ t \in Writers \ RemovalTasks
    /\ mpc[t] = "idle"
    /\ mpc' = [mpc EXCEPT ![t] = "wantw"]
    /\ UNCHANGED <<mwriter, mreaders>>
    /\ MutexOthers

\* Lock obtains the writers' mutex and announces the writer.
WriterTakes(t) ==
    /\ mpc[t] = "wantw"
    /\ mwriter = NoTask
    /\ mwriter' = t
    /\ mpc' = [mpc EXCEPT ![t] = IF mreaders = {} THEN "write" ELSE "drain"]
    /\ UNCHANGED mreaders
    /\ MutexOthers

\* The last reader left: Lock returns.
WriterDrained(t) ==
    /\ mpc[t] = "drain"
    /\ mreaders = {}
    /\ mpc' = [mpc EXCEPT ![t] = "write"]
    /\ UNCHANGED <<mwriter, mreaders>>
    /\ MutexOthers

\* checkClientTimeouts, holding the write lock, finds an idle client.
SweepSchedules ==
    /\ mpc[MonitorTask] = "write"
    /\ FreeRemovals(mpc) # {}
    /\ mpc' = ScheduleRemoval(mpc, MonitorTask)
    /\ UNCHANGED <<mwriter, mreaders>>
    /\ MutexOthers

\* d.clientMutex.Unlock(): the blocked readers enter, the writers' mutex is
\* released.
MutexUnlock(t) ==
    /\ mpc[t] = "write"
    /\ mwriter' = NoTask
    /\ mreaders' = mreaders \cup {r \in MutexTasks : mpc[r] = "wantr"}
    /\ mpc' = [r \in MutexTasks |->
                  IF r = t THEN (IF t \in OneShot THEN "none" ELSE "idle")
                  ELSE IF mpc[r] = "wantr" THEN "read"
                  ELSE mpc[r]]
    /\ MutexOthers

\* broadcastToClients: d.clientMutex.RLock().
MutexRLock ==
    /\ mpc[PtyTask] = "idle"
    /\ IF mwriter = NoTask
       THEN /\ mpc' = [mpc EXCEPT ![PtyTask] = "read"]
            /\ mreaders' = mreaders \cup {PtyTask}
       ELSE /\ mpc' = [mpc EXCEPT ![PtyTask] = "wantr"]
            /\ UNCHANGED mreaders
    /\ UNCHANGED mwriter
    /\ MutexOthers

\* broadcastToClients, holding the read lock: a write fails within its
\* one-second deadline.
BroadcastSchedules ==
    /\ mpc[PtyTask] = "read"
    /\ FreeRemovals(mpc) # {}
    /\ mpc' = ScheduleRemoval(mpc, PtyTask)
    /\ UNCHANGED <<mwriter, mreaders>>
    /\ MutexOthers

\* The deferred d.clientMutex.RUnlock().
MutexRUnlock ==
    /\ mpc[PtyTask] = "read"
    /\ mpc' = [mpc EXCEPT ![PtyTask] = "idle"]
    /\ mreaders' = mreaders \ {PtyTask}
    /\ UNCHANGED mwriter
    /\ MutexOthers

InitMutex ==
    /\ mpc = [t \in MutexTasks |-> IF t \in RemovalTasks THEN "none" ELSE "idle"]
    /\ mwriter = NoTask
    /\ mreaders = {}
    /\ RegIdle /\ DaemonInit /\ ClientIdle /\ CurrentIdle /\ WireInit
    /\ OpsIdle /\ ListIdle /\ LockIdle /\ DetachIdle /\ NormIdle /\ LaunchIdle
    /\ RunIdle /\ GreetIdle

NextMutex ==
    \/ \E t \in MutexTasks :
          \/ MutexLock(t)
          \/ WriterTakes(t)
          \/ WriterDrained(t)
          \/ MutexUnlock(t)
    \/ SweepSchedules
    \/ MutexRLock
    \/ BroadcastSchedules
    \/ MutexRUnlock

\* Every critical section ends (none blocks without a deadline), and
\* sync.Mutex hands the writers' mutex to a goroutine that has waited for
\* it (starvation mode), so no waiting writer is passed over for ever.
MutexFairness ==
    /\ WF_vars(MutexRUnlock)
    /\ \A t \in Writers :
          /\ WF_vars(MutexUnlock(t))
          /\ WF_vars(WriterDrained(t))
          /\ SF_vars(WriterTakes(t))

SpecMutex == InitMutex /\ [][NextMutex]_vars /\ MutexFairness

\* ============================================================ claims
\* The supervisors that serve a session: bound to their socket.
Serving(s) == sup[s].pc \in {"listening", "running"}

\* The supervisors that have recorded their shell's PID and have not begun
\* to shut down, and those that have not finished shutting down.
Recorded(s) == sup[s].rec /\ sup[s].pc \in {"meta", "listening", "running"}
RecordedOrCleaning(s) == sup[s].rec /\ sup[s].pc \in {"meta", "listening", "running", "cleaning"}

\* C1: when create invocations run concurrently, the number NextSessionNumber
\* returns to one of them differs from the number every other create
\* invocation holds and from every number that has a metadata file in the
\* root.
C1_ConcurrentCreatesDistinct ==
    [][\A p \in Procs :
          (ppc[p] = "next_locked" /\ ppc'[p] = "spawn") =>
              /\ \A q \in Procs \ {p} : ppc[q] = "spawn" => pnum[q] # pnum'[p]
              /\ pnum'[p] \in Ids => root'.meta[pnum'[p]] = 0]_vars

\* C2: over any sequence of create, kill and garbage-collection operations,
\* a number NextSessionNumber returns is never a number that an earlier
\* metadata file of the root carried: the numbers of killed or dead sessions
\* are not handed out again.
C2_NumbersNeverReused ==
    [][\A p \in Procs :
          (ppc[p] = "next_locked" /\ ppc'[p] = "spawn") => pnum'[p] \notin everMeta]_vars

\* C3: the client table never holds more than one connection, and a
\* connection accepted while the table was non-empty was written the ERROR
\* line and nothing else, was closed, and never entered the table.
C3_AtMostOneClient ==
    /\ Cardinality(clients) <= 1
    /\ \A c \in Conns :
          busy[c] => /\ greeting[c] = ErrorLine
                     /\ dconn[c] = "closed"
                     /\ c \notin clients

\* A second connection was turned away while the first is in the table.
C3_Witness ==
    \E c, e \in Conns : c # e /\ busy[c] /\ greeting[c] = ErrorLine /\ e \in clients

C6_AsStated ==
    cres.called =>
        IF cres.number # 0
        THEN /\ cbefore.meta[cres.number] # 0
             /\ cbefore.meta[cres.number] \in calive
             /\ cbefore.cur.pid \in calive
        ELSE croot.cur = NoCur /\ ~cres.err

\* C6 as amended: a returned number names a session whose metadata exists
\* with a live PID, the client PID recorded in .current_session is alive when
\* one is recorded (a legacy plain number records none), and the file is
\* kept; an unparsable file is reported as an error and left in place; in
\* every other case the file is gone and no attachment is reported.
C6_CurrentIsLive ==
    cres.called =>
        IF cres.number # 0
        THEN /\ cres.number = cbefore.cur.number
             /\ croot.meta[cres.number] # 0
             /\ croot.meta[cres.number] \in calive
             /\ cbefore.cur.pid = 0 \/ cbefore.cur.pid \in calive
             /\ croot = cbefore
             /\ ~cres.err
        ELSE IF cres.err
        THEN cbefore.cur.kind = "bad" /\ croot = cbefore
        ELSE croot.cur = NoCur

\* GetCurrentSession returned the number of a legacy plain-number payload.
C6_Witness ==
    cres.called /\ cres.number # 0 /\ cbefore.cur.kind = "legacy"

\* C7: no two supervisors serve the same session number at the same time.
C7_OneSupervisorPerSession ==
    \A s, t \in Sups : (s # t /\ Serving(s) /\ Serving(t)) => sup[s].id # sup[t].id

\* C8: session-<id>.meta exists if and only if a supervisor for that number
\* has recorded its shell's PID and has not yet shut down: a metadata file
\* has a recorded supervisor that has not finished its shutdown, and a
\* recorded supervisor that has not begun to shut down has its metadata file.
C8_MetaIffSupervisor ==
    \A n \in Ids :
        /\ root.meta[n] # 0 => \E s \in Sups : sup[s].id = n /\ RecordedOrCleaning(s)
        /\ (\E s \in Sups : sup[s].id = n /\ Recorded(s)) => root.meta[n] # 0

\* The sequence s begins with the sequence prefix.
IsPrefixOf(prefix, s) == HasPrefix(s, prefix)

\* C9: the bytes written to the PTY master are the stdin bytes the client
\* forwarded, in order, none lost and none added: always a prefix of them,
\* and all of them once the supervisor has read everything the client wrote.
C9_StdinReachesPty ==
    /\ IsPrefixOf(pty, forwarded)
    /\ (wbuf = <<>> /\ wopen) => pty = forwarded

\* A RESIZE line: "RESIZE <rows> <cols>\n" with two decimal integers.
IsResizeLine(s) ==
    /\ HasPrefix(s, ResizePrefix)
    /\ LET fields == Fields(s) IN
          /\ Len(fields) = 3
          /\ AllDigits(fields[2])
          /\ AllDigits(fields[3])
          /\ s = ResizePrefix \o fields[2] \o <<" ">> \o fields[3] \o <<"\n">>

\* C10: a read chunk is a control frame only when it is exactly DISCONNECT,
\* exactly PING or a RESIZE line; every other chunk is written whole and
\* unmodified to the PTY master.
C10_ControlFramesExact ==
    wlast.effect # "none" =>
        IF wlast.chunk = DisconnectFrame \/ wlast.chunk = PingFrame \/ IsResizeLine(wlast.chunk)
        THEN wlast.effect # "data" /\ wlast.written = <<>>
        ELSE wlast.effect = "data" /\ wlast.written = wlast.chunk

\* C11 (as stated): a second Kill(id), issued after a first Kill(id) has
\* completed, reports AlreadyDead and changes nothing under the storage root.
C11_AsStated ==
    (ocall.op = "kill" /\ ocall.again) =>
        (ocall.res = "alreadydead" /\ oroot = obefore)

\* C11 (amended): a second Kill(id), issued after a first Kill(id) has
\* completed and with no session of that ID created since, finds no metadata
\* file: it fails with NotFound and changes nothing under the storage root.
C11_SecondKillNotFound ==
    (ocall.op = "kill" /\ ocall.again) =>
        (ocall.res = "notfound" /\ oroot = obefore)

C11_Witness ==
    /\ ocall.op = "kill" /\ ocall.again /\ ocall.res = "notfound"
    /\ oleft = MaxCalls - 2

\* C12: a Kill(id) that returns success sent SIGTERM to the PID the metadata
\* recorded, sent SIGKILL only to that PID and only when it had not exited
\* during the one-second wait, and leaves the socket and metadata files of id
\* absent and the current-attachment file absent if it named id.
C12_KillSignalsAndRemoves ==
    (ocall.op = "kill" /\ ocall.res = "ok") =>
        /\ ocall.term # 0
        /\ ocall.term = obefore.meta[ocall.id]
        /\ ocall.kill # 0 => (ocall.kill = ocall.term /\ ~ocall.exited)
        /\ oroot.sock[ocall.id] = 0
        /\ oroot.meta[ocall.id] = 0
        /\ obefore.cur.number = ocall.id => oroot.cur = NoCur

C12_Witness ==
    /\ ocall.op = "kill" /\ ocall.res = "ok" /\ ocall.kill # 0
    /\ obefore.cur.number = ocall.id
    /\ obefore.sock[ocall.id] # 0

\* C13: Lookup(id) fails with NotFound and changes nothing when id has no
\* metadata file; fails with SessionDead, leaving neither the socket nor the
\* metadata file of id, when the recorded PID is not alive; and otherwise
\* returns the metadata and changes nothing.
C13_LookupOutcomes ==
    ocall.op = "lookup" =>
        LET n == ocall.id IN
        IF obefore.meta[n] = 0
        THEN ocall.res = "notfound" /\ oroot = obefore
        ELSE IF obefore.meta[n] \notin ocall.alive
        THEN ocall.res = "dead" /\ oroot.sock[n] = 0 /\ oroot.meta[n] = 0
        ELSE ocall.res = "ok" /\ ocall.pid = obefore.meta[n] /\ oroot = obefore

C13_Witness ==
    /\ ocall.op = "lookup" /\ ocall.res = "dead"
    /\ obefore.sock[ocall.id] # 0

\* The sessions of root R whose recorded PID is in alive, and the others.
LiveIn(R, alive) == {n \in Ids : R.meta[n] # 0 /\ R.meta[n] \in alive}
StaleIn(R, alive) == {n \in Ids : R.meta[n] # 0 /\ R.meta[n] \notin alive}

\* C14: when ListLive returns, every session whose recorded PID was not alive
\* has lost its metadata and socket files, the list holds exactly the sessions
\* whose recorded PID is alive, and with only stale sessions the list is empty.
C14_ListDropsStale ==
    ocall.op = "list" =>
        /\ \A n \in StaleIn(obefore, ocall.alive) :
              oroot.meta[n] = 0 /\ oroot.sock[n] = 0
        /\ ocall.sessions = LiveIn(obefore, ocall.alive)
        /\ \A n \in ocall.sessions : oroot.meta[n] = obefore.meta[n]
        /\ LiveIn(obefore, ocall.alive) = {} => ocall.sessions = {}

C14_Witness ==
    /\ ocall.op = "list" /\ ocall.sessions = {}
    /\ \E n \in StaleIn(obefore, ocall.alive) : obefore.sock[n] # 0

\* C15: the list ListLive returns is in ascending numeric order of the session
\* IDs, also when some IDs need more than three digits.
C15_ListSortedNumerically ==
    lsdone =>
        /\ Len(lsout) = Cardinality(lsnums)
        /\ \A i, j \in 1..Len(lsout) :
              i < j => DecimalValue(lsout[i]) < DecimalValue(lsout[j])

\* C18: a call that finds .lock present retries until it gets the lock or five
\* seconds have passed; it never waits beyond the deadline, and a call that
\* failed did so at the deadline, with .lock still held by another process,
\* having scanned nothing.
C18_LockWaitBounded ==
    /\ lkpc \in {"loop", "sleep"} => (lkwait <= lockTimeout /\ ~lkscanned)
    /\ lkpc = "sleep" => lkwait < lockTimeout
    /\ lkpc = "scan" => lkheld = "self"
    /\ lkres.res = "timeout" => (lkres.ended = "at" /\ ~lkres.scanned)
    /\ lkres.res = "ok" => lkres.ended = "before"

C18_Witness ==
    /\ lkres.res = "timeout"
    /\ lkres.ended = "at"
    /\ lkheld = "other"

\* The invocations that hold the lock: between acquireLock's return and the
\* deferred Release, which is where listSessionsUnsafe scans.
InScan(p) == ppc[p] \in {"next_locked", "list_locked"}

\* C16: at most one invocation at a time is between its exclusive creation of
\* .lock and its release, and it is the one that created the file.
C16_OneLockHolder ==
    /\ Cardinality({p \in Procs : InScan(p)}) <= 1
    /\ \A p \in Procs : InScan(p) => root.lock = p

C16_Witness ==
    \E p, q \in Procs :
        /\ p # q
        /\ InScan(p)
        /\ ppc[q] \in {"next_wait", "list_wait"}

\* C17: .lock exists only while the invocation that created it is inside
\* NextSessionNumber or ListSessions: a call that has returned has removed it.
C17_LockReleasedOnReturn ==
    /\ \A p \in Procs : ~InScan(p) => root.lock # p
    /\ root.lock \in Procs \cup {0}

C17_Witness ==
    \E p \in Procs : ppc[p] \in {"spawn", "list_cur"} /\ root.lock = 0

\* C19: while one invocation holds the registry lock, no step of another
\* invocation (Lookup's garbage collection, Kill, SetCurrent, ClearCurrent,
\* GetCurrent's self-heal) changes a file under the storage root.
C19_MutationsLockScoped ==
    [][(/\ root.lock # 0
        /\ root'.lock = root.lock
        /\ (ppc' # ppc \/ ops' # ops)) => root' = root]_vars

\* ListLive shows session n of root R.
ListedIn(R, alive, n) == n \in listSessionsUnsafe(R, alive).sessions

\* What C20 says of every state of the detach scenario.
DetachSafe ==
    /\ dsig \subseteq {AttachedPid}
    /\ ListedIn(droot, dalive, dsess)
    /\ dclient \in {"detaching", "cleaned", "exited"} =>
          /\ Len(dwritten) >= Len(DisconnectFrame)
          /\ SubSeq(dwritten, Len(dwritten) - Len(DisconnectFrame) + 1, Len(dwritten))
                = DisconnectFrame
    /\ dclient = "exited" =>
          /\ dterm = dorig
          /\ dagain \in {"none", "failed"} => droot.cur = NoCur
          /\ AttachedPid \notin dalive
    /\ (ddet = "stale" /\ dagain \in {"none", "failed"}) =>
          (dclient \in {"gone", "exited"} /\ droot.cur = NoCur)
    /\ (dclient = "gone" /\ dleft < MaxDetach) =>
          (ddet \in {"stale", "notattached"} /\ droot.cur = NoCur)
    /\ (ddet = "notattached" /\ dagain \in {"none", "failed"}) => droot.cur = NoCur

CtrlXSafe ==
    /\ ListedIn(droot, dalive, dsess)
    /\ droot.sock[dsess] # 0
    /\ SessionPid(dsess) \in dalive
    /\ (dclient = "exited" /\ dagain = "none") => (droot.cur = NoCur /\ dterm = dorig)

\* C21: a detach by Ctrl-X writes DISCONNECT; the supervisor then removes the
\* client from its table and the client's socket is closed, the client exits
\* with the current-attachment file absent, while the shell stays alive and
\* the session's socket and metadata stay present; an attach made once the
\* client is out of the table is greeted with READY.
C21_CtrlXDetachKeepsSession ==
    /\ []CtrlXSafe
    /\ (dclient = "detaching" /\ dhow = "ctrlx")
          ~> (dclient = "exited" /\ dconnx = "closed" /\ droot.cur = NoCur)
    /\ (dclient = "detaching" /\ dhow = "ctrlx") ~> ~dtable
    /\ []((dclient = "exited" /\ ~dtable /\ dagain \in {"none", "queued"})
             => [](dagain \in {"none", "queued", "ready"}))

C21_Witness ==
    /\ dhow = "ctrlx"
    /\ dclient = "exited"
    /\ ~dtable
    /\ dagain = "ready"
    /\ droot.cur = [kind |-> "json", number |-> dsess, pid |-> LaterPid]

\* A decimal integer string: an optional sign, then digits.
IsDecimalString(x) ==
    \/ AllDigits(x)
    \/ (x # <<>> /\ x[1] \in {"+", "-"} /\ AllDigits(Tail(x)))

\* The integer a decimal integer string denotes.
DecimalStringValue(x) ==
    IF x[1] = "-" THEN 0 - DecimalValue(Tail(x))
    ELSE IF x[1] = "+" THEN DecimalValue(Tail(x))
    ELSE DecimalValue(x)

\* C24: NormalizeID applied twice gives what it gives applied once; a decimal
\* integer string is mapped to its value padded with zeros to a width of
\* three (no longer than needed beyond that), and every other string is
\* returned unchanged.
C24_NormalizeIdempotent ==
    zdone =>
        /\ zagain = zout
        /\ IF IsDecimalString(zin)
           THEN /\ IsDecimalString(zout)
                /\ DecimalStringValue(zout) = DecimalStringValue(zin)
                /\ Len(zout) >= 3
                /\ zout[1] # "+"
                /\ Len(zout) > 3 => zout[IF zout[1] = "-" THEN 2 ELSE 1] # "0"
           ELSE zout = zin
        /\ zin \in {<<"1">>, <<"0", "0", "1">>} => zout = <<"0", "0", "1">>

C24_Witness ==
    /\ zdone
    /\ zin = <<"-", "1">>
    /\ zout = <<"-", "0", "1">>

\* C22: a create or attach-or-create invocation run with SESS_NUM set exits
\* with status 1 and the message naming the enclosing session, and leaves
\* the files of the storage root and the process table as they were: no
\* number allocated, no supervisor spawned, no metadata and no
\* current-attachment file written.
C22_NestedCreateRefused ==
    (nrun.cmd \in {"create", "attachcreate"} /\ nrun.env # <<>>) =>
        /\ nrun.exit = 1
        /\ nrun.msg = "nested"
        /\ nrun.named = nrun.env
        /\ nrun.phase = "done"
        /\ nrun.spawned = 0
        /\ ~nrun.set
        /\ nroot = nrun.before
        /\ nprocs = nrun.procsBefore

C22_Witness ==
    /\ nrun.cmd = "attachcreate"
    /\ nrun.env = <<"0", "0", "1">>
    /\ nrun.exit = 1
    /\ nrun.id = 2
    /\ nrun.before.meta[2] = 0

C25_DeadOnlyOnEsrch ==
    nrun.cmd = "list" =>
        \A n \in Ids :
           nrun.before.meta[n] # 0 =>
              IF Kill0(nrun.procsBefore, nrun.before.meta[n]) = "ESRCH"
              THEN nroot.meta[n] = 0
              ELSE nroot.meta[n] = nrun.before.meta[n]

\* C27: once NewManager has returned without error the directory exists with
\* mode 0700, whatever it was before, and a further NewManager changes
\* nothing.
C27_InitializeEnsures0700 ==
    nrun.cmd # "none" =>
        /\ ndir.exists
        /\ ndir.perm = Perm0700
        /\ \A umask \in {Umask022, Umask077} : NewManager(ndir, umask) = ndir

C26_WriteFailureRemovesOnlyThatClient ==
    [][LET scheduled == rpend' \ rpend
           ran == IF rmain' = rmain THEN rpend \ rpend' ELSE {}
       IN /\ (scheduled # {} \/ ran # {}) =>
                /\ rctx' = rctx /\ rwhy' = rwhy /\ rshell' = rshell
                /\ rlisten' = rlisten /\ rtask' = rtask /\ rmain' = rmain
                /\ rsigpc' = rsigpc /\ rpty' = rpty /\ rfiles' = rfiles
          /\ scheduled # {} =>
                /\ scheduled \subseteq rtable
                /\ rtable' = rtable /\ rconn' = rconn
          /\ \A c \in ran :
                /\ rtable' = rtable \ {c}
                /\ c \in rtable => rconn'[c] = "closed"
                /\ \A b \in RunConns \ {c} : rconn'[b] = rconn[b]]_vars

\* The scheduled removal has closed one connection (its read loop has not
\* noticed yet); the supervisor is not cancelled, its shell runs, its tasks
\* loop, its files are there, and a later client has been greeted READY.
C26_Witness ==
    \E c \in RunConns, b \in RunConns :
       /\ c # b
       /\ rconn[c] = "closed" /\ c \in rreaders
       /\ rconn[b] = "open" /\ rtable = {b}
       /\ rctx = "live" /\ rmain = "waiting"
       /\ rshell.state = "running"
       /\ rlisten = "open"
       /\ \A t \in DOMAIN rtask : rtask[t] = "loop"
       /\ rpty.master = "open"
       /\ rfiles.sock /\ rfiles.meta

\* What cleanup and the return of run leave behind.
RunTornDown ==
    /\ rlisten = "closed"
    /\ rtable = {}
    /\ \A c \in RunConns : rconn[c] \in {"free", "closed"}
    /\ rshell.state \in {"zombie", "reaped"}
    /\ rpty = [master |-> "closed", slave |-> "closed"]
    /\ rfiles = [sock |-> FALSE, meta |-> FALSE, cur |-> FALSE]
    /\ \A t \in DOMAIN rtask : rtask[t] = "returned"

\* C28: once d.cancel has been called the supervisor's process eventually
\* ends, and when it has ended the listener and every client connection are
\* closed, the shell is terminated, both ends of the PTY are closed, the
\* socket, the metadata file and the current-attachment file are removed and
\* the accept, PTY and monitor tasks have returned.
C28_CancelledSupervisorEnds ==
    /\ [](rmain = "exited" => RunTornDown)
    /\ (rctx = "done") ~> (rmain = "exited")

\* A supervisor that was cancelled while a client was attached and its shell
\* ran has ended.
C28_Witness ==
    /\ rmain = "exited"
    /\ rwhy = "SIGTERM or SIGINT"
    /\ rshell = [state |-> "zombie", status |-> SignalStatus(SigNumber("SIGKILL"))]
    /\ \E c \in RunConns : rconn[c] = "closed"

\* C29: d.cancel is called only when the non-blocking wait has found the
\* shell exited or killed, or on SIGTERM or SIGINT: a SIGCHLD for which the
\* wait finds the shell not exited leaves the supervisor running, and no
\* client disconnect or I/O error cancels it.
C29_CancelledOnlyByExitOrSignal ==
    rctx = "done" => rwhy \in {"SIGCHLD", "SIGTERM or SIGINT"}

\* C31: when Start returns an error it has not entered the service loop and
\* both ends of the PTY are closed; when the shell had been started (the
\* metadata write, the bind or the detach failed) the shell is terminated,
\* by SIGTERM and then SIGKILL unless it went by itself, and neither the
\* socket nor the metadata file remains; when the PTY or the shell could not
\* be started, the step that fails leaves the files as they were.
C31_FailedStartUnwinds ==
    /\ [](rmain = "failed" =>
            /\ \A t \in DOMAIN rtask : rtask[t] = "none"
            /\ rsigpc = "none"
            /\ rlisten = "closed"
            /\ rpty = [master |-> "closed", slave |-> "closed"]
            /\ rshell.state # "none" =>
                  /\ rshell.state \in {"zombie", "reaped"}
                  /\ ~rfiles.sock /\ ~rfiles.meta)
    /\ [][(rmain' = "failed" /\ rmain # "failed" /\ rshell.state = "none") =>
             rfiles' = rfiles]_vars

\* Start has failed after the metadata file was written and cleanup has
\* killed the shell.
C31_Witness ==
    /\ rmain = "failed"
    /\ rshell = [state |-> "zombie", status |-> SignalStatus(SigNumber("SIGKILL"))]
    /\ ~rfiles.sock /\ ~rfiles.meta
    /\ \E c \in RunConns : rconn[c] = "closed"

\* C32: a sweep of the client monitor schedules the removal of exactly the
\* connections of the table whose last activity lies more than
\* connectionTimeout seconds back, and neither the sweep nor the removal
\* cancels the supervisor; the last-activity time of a connection in the
\* table is fresh at its accept and is advanced only by a read from that
\* connection: PTY output written to it leaves it alone.
C32_IdleSweep ==
    [][/\ devent'.op = "sweep" =>
             /\ removals' = removals \cup {c \in clients : lastAge[c] > connectionTimeout}
             /\ clients' = clients /\ dctx' = dctx /\ lastAge' = lastAge
       /\ devent'.op = "removal" =>
             /\ clients' = clients \ {devent'.conn}
             /\ dctx' = dctx
       /\ devent'.op = "output" => lastAge' = lastAge /\ removals' = removals
       /\ \A c \in Conns :
             /\ (c \in clients' \ clients) => lastAge'[c] = 0
             /\ (c \in clients /\ c \in clients' /\ lastAge'[c] < lastAge[c]) =>
                   devent' = [op |-> "read", conn |-> c]]_vars

\* A sweep has just scheduled the removal of a client that was sent PTY
\* output and has sent nothing for more than thirty seconds; the supervisor
\* runs.
C32_Witness ==
    /\ devent.op = "sweep"
    /\ dctx = "live"
    /\ \E c \in clients : c \in removals /\ lastAge[c] > connectionTimeout

\* C33: readFromStdin detaches on a read exactly when the read returned the
\* single byte 0x18 and disableCtrlX is false; every other read is written
\* to the socket unmodified with one write, and when that write succeeds
\* the reader goes on and the client stays attached.
C33_CtrlXOnlyAlone ==
    /\ wlast.effect = "none" => wlast = NoChunk
    /\ wlast.effect # "none" =>
          /\ wlast.effect = "detach" <=>
                (wlast.chunk = <<CtrlXByte>> /\ ~disableCtrlX)
          /\ wlast.effect = "detach" =>
                /\ wlast.written = DisconnectFrame
                /\ done /\ ending = "ctrlx" /\ stdinLoop = "returned"
          /\ wlast.effect = "forward" =>
                /\ wlast.written = wlast.chunk
                /\ Len(wbuf) >= Len(wlast.chunk)
                /\ SubSeq(wbuf, Len(wbuf) - Len(wlast.chunk) + 1, Len(wbuf)) = wlast.chunk
                /\ ~done /\ stdinLoop = "running" /\ cpc = "running"
          /\ wlast.effect = "write failed" => wlast.chunk # <<CtrlXByte>> \/ disableCtrlX

\* Ctrl-X alone was forwarded because the policy disables it, and a longer
\* read that holds the byte was forwarded too.
C33_Witness ==
    /\ wlast.effect = "forward"
    /\ \/ wlast.chunk = <<CtrlXByte>> /\ disableCtrlX
       \/ wlast.chunk = <<"a", CtrlXByte>> /\ ~disableCtrlX

\* C34: whatever cancellation triggers fire in the client, and however many
\* (Ctrl-X, SIGUSR1, SIGINT or SIGTERM, a socket read error, a stdin or
\* socket write error), close(c.done) runs exactly once; once done is closed
\* both readers return and cleanup runs, and cleanup runs at most once and
\* only after both readers have returned.
C34_DoneClosedOnceCleanupOnce ==
    /\ [](/\ closes.closed = (IF done THEN 1 ELSE 0)
          /\ cleanups <= 1
          /\ cleanups = 1 => done /\ stdinLoop = "returned" /\ sessLoop = "returned")
    /\ done ~> (stdinLoop = "returned" /\ sessLoop = "returned" /\ cleanups = 1)

\* Three triggers fired, one in each goroutine, and cleanup has run.
C34_Witness ==
    /\ cleanups = 1
    /\ closes = [calls |-> 3, closed |-> 1]

\* Invocation p is attached to a session that its supervisor serves and
\* whose shell lives; the .current_session file records p's attachment.
AttachedLive(p) ==
    /\ ppc[p] = "attached"
    /\ Accepting(root.sock[pnum[p]])
    /\ shell[root.sock[pnum[p]]] = "alive"

RecordsAttachment(p) ==
    root.cur = [kind |-> "json", number |-> pnum[p], pid |-> ClientPid(p)]

\* C35: once an invocation is attached with the .current_session file
\* recording its session and PID, the file keeps that record for as long as
\* the invocation stays attached and the session lives, whatever other
\* invocations attach, fail to attach or exit in the meantime.
C35_AttachedClientKeepsRecord ==
    [][\A p \in Procs :
          (AttachedLive(p) /\ RecordsAttachment(p) /\ AttachedLive(p)') =>
              RecordsAttachment(p)']_vars

\* C36: the cleanup of the supervisor of session A (at shutdown or after a
\* failed start) leaves the .current_session file alone when the file
\* records another session B whose client is still attached.
C36_CleanupKeepsOtherSessionsRecord ==
    [][\A s \in Sups :
          (/\ sup[s].pc = "cleaning"
           /\ sup'[s].pc = "done"
           /\ root.cur.number # sup[s].id
           /\ \E p \in Procs : AttachedLive(p) /\ RecordsAttachment(p)) =>
              root'.cur = root.cur]_vars

\* C37: a client that the supervisor registered and greeted with READY goes
\* on to the proxy loop, whatever shell output the supervisor broadcasts to
\* it after the greeting and before the client's first read: whenever the
\* first read returned bytes (READY is always the first of them), Attach has
\* not failed.
C37_GreetedClientProceeds ==
    (gsup # "none" /\ gresp # <<>>) => gclient = "proxy"

\* The client of c is gone, or the supervisor has given up on it: the peer
\* closed its end (after DISCONNECT or without), or a failed broadcast write
\* or the idle sweep scheduled its removal.
Away(c) == dconn[c] = "hungup" \/ c \in removals

\* C38: whichever way a registered client goes away, its entry leaves the
\* supervisor's table while the supervisor keeps running, and a connection
\* accepted with the table empty is registered and greeted with READY.
C38_TableEmptiesAfterClientGoes ==
    /\ \A c \in Conns : (c \in clients /\ Away(c)) ~> (c \notin clients \/ dctx # "live")
    /\ [][\A e \in Conns :
             (dconn[e] = "queued" /\ dconn'[e] # "queued" /\ clients = {} /\ dctx = "live") =>
                 (clients' = {e} /\ greeting'[e] = ReadyLine)]_vars

\* The first client was registered and then removed, and a second
\* connection has just been greeted READY by the running supervisor.
C38_Witness ==
    /\ dctx = "live"
    /\ dconn[1] = "closed" /\ greeting[1] = ReadyLine
    /\ clients = {2} /\ greeting[2] = ReadyLine
    /\ devent.op = "accept"

\* C39: the cleanup that ends a supervisor removes no socket file bound by
\* another supervisor and no metadata file recording another supervisor's
\* shell, also when that other supervisor serves a session created with the
\* same number after this one's session was killed.
C39_CleanupRemovesOnlyOwnFiles ==
    [][\A s \in Sups :
          (sup[s].pc = "cleaning" /\ sup'[s].pc = "done") =>
              \A n \in Ids :
                  /\ root.sock[n] \notin {0, s} => root'.sock[n] = root.sock[n]
                  /\ root.meta[n] \notin {0, ShellPid(s)} => root'.meta[n] = root.meta[n]]_vars

\* C40: no goroutine of the supervisor waits for the client-table lock for
\* ever: whatever the interleaving of accept, reader, broadcast, sweep,
\* scheduled removals and cleanup, a goroutine inside Lock or RLock obtains
\* the lock.
C40_EveryLockRequestGranted ==
    \A t \in MutexTasks :
        (mpc[t] \in {"wantw", "drain", "wantr"}) ~> (mpc[t] \in {"write", "read"})

\* Broadcast blocks behind cleanup, which drains nobody, while the accept
\* task and a scheduled removal wait for the writers' mutex.
C40_Witness ==
    /\ mpc[PtyTask] = "wantr"
    /\ mpc[CleanupTask] = "write"
    /\ mpc[AcceptTask] = "wantw"
    /\ \E t \in RemovalTasks : mpc[t] = "wantw"
====
